---- MODULE Spec2Model ----
(***************************************************************************)
(* A model of the statistics pipeline of the DIII cross-country nationals  *)
(* scripts (scripts/step3_compile_data.py and its copies): the performance *)
(* normalizer, the deduplicator, the distance classifier, the lifetime PR  *)
(* and the season statistics.                                              *)
(*                                                                         *)
(* Representation of Python values                                         *)
(*   - a str is a sequence of one-character strings: "8k" is <<"8","k">>;  *)
(*   - None is the record None, a present value v is Some(v);              *)
(*   - a decoded JSON scalar is a record [t, n, f, s]: t is "null", "num"  *)
(*     or "str"; a number is n + f / 10^7; a string is the characters s;   *)
(*   - a float time is [s, f], the number s + f / 10^7 with 0 <= f < 10^7  *)
(*     (seven decimal digits, one more than round(x, 6) keeps);            *)
(*   - a datetime.date is [y, m, d];                                       *)
(*   - a dict the code reads with .get() is a record of the keys it reads, *)
(*     an absent key holding JNull (dict.get gives None for both).         *)
(***************************************************************************)
EXTENDS Integers, Sequences, FiniteSets, TLC

(***************************************************************************)
(* Bounds of the model.                                                    *)
(***************************************************************************)
MaxPerfs == 2
MaxList == 3

(***************************************************************************)
(* Optional values.                                                        *)
(***************************************************************************)
None == [tag |-> "None"]
Some(v) == [tag |-> "Some", v |-> v]
IsNone(x) == x.tag = "None"

(***************************************************************************)
(* Decoded JSON scalars.                                                   *)
(***************************************************************************)
\* round(x, 6) keeps RoundDigits decimals; a float carries one digit more.
RoundDigits == 6
FracUnit == 10 ^ (RoundDigits + 1)
JNull == [t |-> "null", n |-> 0, f |-> 0, s |-> <<>>]
JNum(n, f) == [t |-> "num", n |-> n, f |-> f, s |-> <<>>]
JInt(n) == JNum(n, 0)
JStr(s) == [t |-> "str", n |-> 0, f |-> 0, s |-> s]
\* A decoded value that is no scalar: a list or a mapping with something in it.
JOther == [t |-> "other", n |-> 0, f |-> 0, s |-> <<>>]

\* Python truthiness of a decoded scalar: None, 0 and "" are false.
Truthy(j) ==
    CASE j.t = "null" -> FALSE
      [] j.t = "num" -> j.n # 0 \/ j.f # 0
      [] j.t = "other" -> TRUE
      [] OTHER -> Len(j.s) > 0

\* a or b
Or(a, b) == IF Truthy(a) THEN a ELSE b

(***************************************************************************)
(* Strings.                                                                *)
(***************************************************************************)
UpperChars == <<"A","B","C","D","E","F","G","H","I","J","K","L","M",
                "N","O","P","Q","R","S","T","U","V","W","X","Y","Z">>
LowerChars == <<"a","b","c","d","e","f","g","h","i","j","k","l","m",
                "n","o","p","q","r","s","t","u","v","w","x","y","z">>
Whitespace == {" ", "\t", "\n", "\r"}
DigitChars == <<"0","1","2","3","4","5","6","7","8","9">>

UpperSet == {UpperChars[i] : i \in 1..26}
LowerMap == [c \in UpperSet |-> LowerChars[CHOOSE i \in 1..26 : UpperChars[i] = c]]
LowerChar(c) == IF c \in UpperSet THEN LowerMap[c] ELSE c

\* str.lower()
Lower(s) == [i \in 1..Len(s) |-> LowerChar(s[i])]

\* sub in s
Contains(s, sub) ==
    \E i \in 0..(Len(s) - Len(sub)) : SubSeq(s, i + 1, i + Len(sub)) = sub

\* str.split(): the maximal runs of non-whitespace characters, in order.
RECURSIVE SplitFrom(_, _, _)
SplitFrom(s, i, word) ==
    IF i > Len(s)
    THEN IF word = <<>> THEN <<>> ELSE <<word>>
    ELSE IF s[i] \in Whitespace
         THEN IF word = <<>>
              THEN SplitFrom(s, i + 1, <<>>)
              ELSE <<word>> \o SplitFrom(s, i + 1, <<>>)
         ELSE SplitFrom(s, i + 1, Append(word, s[i]))

Split(s) == SplitFrom(s, 1, <<>>)

\* ' '.join(words)
RECURSIVE JoinSpace(_)
JoinSpace(words) ==
    IF words = <<>> THEN <<>>
    ELSE IF Len(words) = 1 THEN words[1]
    ELSE words[1] \o <<" ">> \o JoinSpace(Tail(words))

DigitSet == {DigitChars[i] : i \in 1..10}
DigitMap == [c \in DigitSet |-> (CHOOSE i \in 1..10 : DigitChars[i] = c) - 1]
IsDigit(c) == c \in DigitSet
DigitVal(c) == DigitMap[c]
DigitOf(n) == DigitChars[n + 1]

\* The value of a run of decimal digits.
RECURSIVE DigitsVal(_)
DigitsVal(s) ==
    IF s = <<>> THEN 0
    ELSE 10 * DigitsVal(SubSeq(s, 1, Len(s) - 1)) + DigitVal(s[Len(s)])

AllDigits(s) == \A i \in 1..Len(s) : IsDigit(s[i])

(***************************************************************************)
(* Dates.                                                                  *)
(***************************************************************************)
IsLeap(y) == y % 4 = 0 /\ (y % 100 # 0 \/ y % 400 = 0)
DaysInMonth(y, m) ==
    IF m = 2 THEN (IF IsLeap(y) THEN 29 ELSE 28)
    ELSE IF m \in {4, 6, 9, 11} THEN 30 ELSE 31

\* True when s is YYYY-MM-DD and names a day of the calendar.
IsIsoDate(s) ==
    /\ Len(s) = 10
    /\ s[5] = "-" /\ s[8] = "-"
    /\ AllDigits(SubSeq(s, 1, 4)) /\ AllDigits(SubSeq(s, 6, 7))
    /\ AllDigits(SubSeq(s, 9, 10))
    /\ LET y == DigitsVal(SubSeq(s, 1, 4))
           m == DigitsVal(SubSeq(s, 6, 7))
           d == DigitsVal(SubSeq(s, 9, 10))
       IN  y >= 1 /\ m \in 1..12 /\ d >= 1 /\ d <= DaysInMonth(y, m)

IsoDateOf(s) ==
    [y |-> DigitsVal(SubSeq(s, 1, 4)), m |-> DigitsVal(SubSeq(s, 6, 7)),
     d |-> DigitsVal(SubSeq(s, 9, 10))]

\* True when s is HH:MM or HH:MM:SS, what fromisoformat takes after the
\* separator character.
IsIsoTime(s) ==
    /\ Len(s) \in {5, 8}
    /\ AllDigits(SubSeq(s, 1, 2)) /\ DigitsVal(SubSeq(s, 1, 2)) <= 23
    /\ s[3] = ":"
    /\ AllDigits(SubSeq(s, 4, 5)) /\ DigitsVal(SubSeq(s, 4, 5)) <= 59
    /\ Len(s) = 8 =>
         /\ s[6] = ":"
         /\ AllDigits(SubSeq(s, 7, 8)) /\ DigitsVal(SubSeq(s, 7, 8)) <= 59

\* datetime.fromisoformat(s) succeeds: a date, or a date, one separator
\* character and a time.
FromIsoOk(s) ==
    \/ IsIsoDate(s)
    \/ /\ Len(s) > 11
       /\ IsIsoDate(SubSeq(s, 1, 10))
       /\ IsIsoTime(SubSeq(s, 12, Len(s)))

\* s.split('T')[0]
BeforeT(s) ==
    IF \E i \in 1..Len(s) : s[i] = "T"
    THEN SubSeq(s, 1, (CHOOSE i \in 1..Len(s) :
                          s[i] = "T" /\ \A j \in 1..(i - 1) : s[j] # "T") - 1)
    ELSE s

\* datetime.strptime(s, "%Y-%m-%d"): four digits, then a month and a day of
\* one or two digits each, nothing after them.
SecondDash(s) == IF Len(s) >= 7 /\ s[7] = "-" THEN 7 ELSE 8
StrptimeOk(s) ==
    /\ Len(s) \in 8..10
    /\ s[5] = "-" /\ s[SecondDash(s)] = "-"
    /\ SecondDash(s) < Len(s) /\ Len(s) - SecondDash(s) <= 2
    /\ AllDigits(SubSeq(s, 1, 4))
    /\ AllDigits(SubSeq(s, 6, SecondDash(s) - 1))
    /\ AllDigits(SubSeq(s, SecondDash(s) + 1, Len(s)))
    /\ LET y == DigitsVal(SubSeq(s, 1, 4))
           m == DigitsVal(SubSeq(s, 6, SecondDash(s) - 1))
           d == DigitsVal(SubSeq(s, SecondDash(s) + 1, Len(s)))
       IN  y >= 1 /\ m \in 1..12 /\ d >= 1 /\ d <= DaysInMonth(y, m)
StrptimeDateOf(s) ==
    [y |-> DigitsVal(SubSeq(s, 1, 4)), m |-> DigitsVal(SubSeq(s, 6, SecondDash(s) - 1)),
     d |-> DigitsVal(SubSeq(s, SecondDash(s) + 1, Len(s)))]

\* parse_date: None for a falsy value; else the date fromisoformat reads;
\* else the date strptime reads; else the date fromisoformat reads in what
\* stands before the first 'T'; else None.  Of a value that is not a string
\* the model keeps no date (json dates are strings or null).
parse_date(dstr) ==
    IF ~Truthy(dstr) THEN None
    ELSE IF dstr.t # "str" THEN None
    ELSE IF FromIsoOk(dstr.s) THEN Some(IsoDateOf(dstr.s))
    ELSE IF StrptimeOk(dstr.s) THEN Some(StrptimeDateOf(dstr.s))
    ELSE IF FromIsoOk(BeforeT(dstr.s)) THEN Some(IsoDateOf(BeforeT(dstr.s)))
    ELSE None

\* date < date, date >= date: by (year, month, day).
DateLT(a, b) ==
    \/ a.y < b.y
    \/ a.y = b.y /\ a.m < b.m
    \/ a.y = b.y /\ a.m = b.m /\ a.d < b.d
DateGE(a, b) == ~DateLT(a, b)

\* date.toordinal(): days since 0001-01-01, that day being 1.
RECURSIVE DaysBeforeMonth(_, _)
DaysBeforeMonth(y, m) ==
    IF m = 1 THEN 0 ELSE DaysBeforeMonth(y, m - 1) + DaysInMonth(y, m - 1)
ToOrdinal(dt) ==
    LET y1 == dt.y - 1
    IN  y1 * 365 + (y1 \div 4) - (y1 \div 100) + (y1 \div 400)
        + DaysBeforeMonth(dt.y, dt.m) + dt.d

\* (a - b).days
DaysBetween(a, b) == ToOrdinal(a) - ToOrdinal(b)

\* n as k decimal digits, zero-padded.
RECURSIVE Pad(_, _)
Pad(n, k) == IF k = 0 THEN <<>> ELSE Append(Pad(n \div 10, k - 1), DigitOf(n % 10))

\* date.isoformat()
isoformat(dt) == Pad(dt.y, 4) \o <<"-">> \o Pad(dt.m, 2) \o <<"-">> \o Pad(dt.d, 2)

(***************************************************************************)
(* Floats.  A float is [s, f]: the number s + f / FracUnit, 0 <= f <       *)
(* FracUnit.                                                               *)
(***************************************************************************)
Float(s, f) == [s |-> s, f |-> f]
Secs(n) == Float(n, 0)

FloatLT(a, b) == a.s < b.s \/ (a.s = b.s /\ a.f < b.f)

\* The float of sign * (n + f / FracUnit).
SignedFloat(neg, n, f) ==
    IF ~neg THEN Float(n, f)
    ELSE IF f = 0 THEN Float(-n, 0)
    ELSE Float(-n - 1, FracUnit - f)

StripLeft(s) ==
    IF \A i \in 1..Len(s) : s[i] \in Whitespace THEN <<>>
    ELSE SubSeq(s, CHOOSE i \in 1..Len(s) :
                      s[i] \notin Whitespace /\ \A j \in 1..(i - 1) : s[j] \in Whitespace,
                Len(s))
StripRight(s) ==
    IF \A i \in 1..Len(s) : s[i] \in Whitespace THEN <<>>
    ELSE SubSeq(s, 1, CHOOSE i \in 1..Len(s) :
                         s[i] \notin Whitespace /\ \A j \in (i + 1)..Len(s) : s[j] \in Whitespace)
\* str.strip()
Strip(s) == StripRight(StripLeft(s))

\* The text of a decimal literal without its sign: digits, or digits '.'
\* digits with a digit on one side at least, and at most RoundDigits + 1
\* fraction digits (the precision of the model's floats).
DotAt(s) == IF \E i \in 1..Len(s) : s[i] = "."
            THEN CHOOSE i \in 1..Len(s) : s[i] = "." /\ \A j \in 1..(i - 1) : s[j] # "."
            ELSE 0
IntPart(s) == IF DotAt(s) = 0 THEN s ELSE SubSeq(s, 1, DotAt(s) - 1)
FracPart(s) == IF DotAt(s) = 0 THEN <<>> ELSE SubSeq(s, DotAt(s) + 1, Len(s))
IsDecimal(s) ==
    /\ AllDigits(IntPart(s)) /\ AllDigits(FracPart(s))
    /\ Len(IntPart(s)) + Len(FracPart(s)) > 0
    /\ Len(FracPart(s)) <= RoundDigits + 1
DecimalFrac(s) == DigitsVal(FracPart(s)) * 10 ^ (RoundDigits + 1 - Len(FracPart(s)))

\* float(str): surrounding whitespace ignored, an optional sign, a decimal
\* literal; anything else raises ValueError (None here).
float_of_str(str) ==
    LET s == Strip(str)
        signed == Len(s) > 0 /\ s[1] \in {"-", "+"}
        body == IF signed THEN Tail(s) ELSE s
    IN  IF IsDecimal(body)
        THEN Some(SignedFloat(signed /\ s[1] = "-", DigitsVal(IntPart(body)), DecimalFrac(body)))
        ELSE None

\* round(x, 6): to the nearest multiple of 10^-6, a tie going to the even one.
Round6(x) ==
    LET step == FracUnit \div (10 ^ RoundDigits)
        q == x.f \div step
        r == x.f % step
        up == 2 * r > step \/ (2 * r = step /\ q % 2 = 1)
        f2 == (IF up THEN q + 1 ELSE q) * step
    IN  IF f2 = FracUnit THEN Float(x.s + 1, 0) ELSE Float(x.s, f2)

\* str(x) of a decoded scalar; a number is written as an int when it has no
\* fraction.
RECURSIVE NatStr(_)
NatStr(n) == IF n < 10 THEN <<DigitOf(n)>> ELSE Append(NatStr(n \div 10), DigitOf(n % 10))
RECURSIVE TrimZeros(_)
TrimZeros(s) == IF Len(s) > 1 /\ s[Len(s)] = "0" THEN TrimZeros(SubSeq(s, 1, Len(s) - 1)) ELSE s
Str(j) ==
    CASE j.t = "str" -> j.s
      [] j.t = "null" -> <<"N","o","n","e">>
      [] OTHER ->
           (IF j.n < 0 THEN <<"-">> \o NatStr(-j.n) ELSE NatStr(j.n))
           \o (IF j.f = 0 THEN <<>> ELSE <<".">> \o TrimZeros(Pad(j.f, RoundDigits + 1)))

\* np.nanmin(times) of a non-empty list: its least element (the floats of
\* the model are numbers, none is NaN).
RECURSIVE nanmin(_)
nanmin(times) ==
    IF Len(times) = 1 THEN times[1]
    ELSE LET m == nanmin(Tail(times))
         IN  IF FloatLT(m, times[1]) THEN m ELSE times[1]

(***************************************************************************)
(* np.std(arr, ddof) in exact arithmetic.  With N = len(arr), S = sum(arr) *)
(* and e = 1 / FracUnit, N * x - S is A + B * e for integers A and B, and  *)
(* the variance is  sum((N * x - S)^2) / (N^2 * (N - ddof)).  The sum of   *)
(* squares is kept as the coefficients <<c0, c1, c2>> of c0 + c1 * e +     *)
(* c2 * e^2; the returned standard deviation is the square root of         *)
(* sq / den, kept as the record [sq, den].                                 *)
(***************************************************************************)
RECURSIVE SumS(_)
SumS(arr) == IF arr = <<>> THEN 0 ELSE arr[1].s + SumS(Tail(arr))
RECURSIVE SumF(_)
SumF(arr) == IF arr = <<>> THEN 0 ELSE arr[1].f + SumF(Tail(arr))

RECURSIVE SumSqDev(_, _, _, _)
SumSqDev(arr, n, ss, sf) ==
    IF arr = <<>> THEN <<0, 0, 0>>
    ELSE LET a == n * arr[1].s - ss
             b == n * arr[1].f - sf
             rest == SumSqDev(Tail(arr), n, ss, sf)
         IN  <<a * a + rest[1], 2 * a * b + rest[2], b * b + rest[3]>>

np_std(arr, ddof) ==
    LET n == Len(arr)
    IN  [sq |-> SumSqDev(arr, n, SumS(arr), SumF(arr)), den |-> n * n * (n - ddof)]

(***************************************************************************)
(* The distance classifier.                                                *)
(***************************************************************************)
\* looks_like_8k without the lower-casing.
looks_like_8k_case_sensitive(section) ==
    IF ~Truthy(section) THEN FALSE
    ELSE LET s == Str(section)
         IN  Contains(s, <<"8","k">>) \/ Contains(s, <<"8","0","0","0">>)

looks_like_8k(section) ==
    IF ~Truthy(section) THEN FALSE
    ELSE LET s == Lower(Str(section))
         IN  Contains(s, <<"8","k">>) \/ Contains(s, <<"8","0","0","0">>)

\* CONFIG["TRACK_KEYWORDS"] of config.py
TRACK_KEYWORDS ==
    << <<"t","r","a","c","k">>, <<"i","n","d","o","o","r">>, <<"o","u","t","d","o","o","r">>,
       <<"s","t","a","d","i","u","m">>, <<"m","e","t","e","r","s">>, <<"m","e","t","e","r">>,
       <<"m"," ">> >>

\* is_track_meet with the meet name and the section compared as they are
\* written.
is_track_meet_case_sensitive(meet_name, section) ==
    LET name == IF Truthy(meet_name) THEN meet_name.s ELSE <<>>
        sec == IF Truthy(section) THEN section.s ELSE <<>>
    IN  \E k \in 1..Len(TRACK_KEYWORDS) :
            \/ Contains(name, Lower(TRACK_KEYWORDS[k]))
            \/ Contains(sec, Lower(TRACK_KEYWORDS[k]))

\* (x or "").lower() is applied to a truthy value that is no str.
is_track_meet_raises(meet_name, section) ==
    \/ Truthy(meet_name) /\ meet_name.t # "str"
    \/ Truthy(section) /\ section.t # "str"

\* is_track_meet when it does not raise.
is_track_meet(meet_name, section) ==
    LET name == Lower(IF Truthy(meet_name) THEN meet_name.s ELSE <<>>)
        sec == Lower(IF Truthy(section) THEN section.s ELSE <<>>)
    IN  \E k \in 1..Len(TRACK_KEYWORDS) :
            \/ Contains(name, Lower(TRACK_KEYWORDS[k]))
            \/ Contains(sec, Lower(TRACK_KEYWORDS[k]))

\* is_track_meet of the fetch scripts when it does not raise: the keyword is
\* compared as it is configured, and counts when, stripped, it is one of the
\* seven the function names.
TrackIndicators ==
    {<<"m","e","t","e","r","s">>, <<"m","e","t","e","r">>, <<"m">>,
     <<"t","r","a","c","k">>, <<"i","n","d","o","o","r">>,
     <<"o","u","t","d","o","o","r">>, <<"s","t","a","d","i","u","m">>}
is_track_meet_fetch(meet_name, section) ==
    LET name == Lower(IF Truthy(meet_name) THEN meet_name.s ELSE <<>>)
        sec == Lower(IF Truthy(section) THEN section.s ELSE <<>>)
    IN  \E k \in 1..Len(TRACK_KEYWORDS) :
            /\ Contains(name, TRACK_KEYWORDS[k]) \/ Contains(sec, TRACK_KEYWORDS[k])
            /\ Strip(TRACK_KEYWORDS[k]) \in TrackIndicators

(***************************************************************************)
(* The performance normalizer.  A raw entry p is                           *)
(*   [isdict, time, place, section, date, race], race being                *)
(*   [isdict, meet_name, meet, name, section, date]; isdict tells whether  *)
(* the decoded value is a mapping (p.get exists only on a mapping);        *)
(* a season block is [isdict, season, season_xc_performances], its season  *)
(* being [kind, year] (kind "dict", "int" or "other") and its              *)
(* performances [islist, items].                                           *)
(***************************************************************************)
\* race.get(key) after "race = p.get('race') if isinstance(..., dict) else {}"
RaceGet(p, key) == IF p.race.isdict THEN p.race[key] ELSE JNull

\* time_val_of with a value that float() refuses turned into 0.0.
time_val_or_zero(time) ==
    CASE time.t = "null" -> None
      [] time.t = "num" -> Some(SignedFloat(FALSE, time.n, time.f))
      [] time.t = "str" -> IF float_of_str(time.s) = None THEN Some(Secs(0))
                           ELSE float_of_str(time.s)
      [] OTHER -> Some(Secs(0))

\* float(time) if time is not None else None, an exception giving None
time_val_of(time) ==
    CASE time.t = "null" -> None
      [] time.t = "num" -> Some(SignedFloat(FALSE, time.n, time.f))
      [] time.t = "str" -> float_of_str(time.s)
      [] OTHER -> None

\* normalize_entry with the entry's own section and date looked at before
\* those of its race.
normalize_entry_own_first(p) ==
    [time |-> time_val_of(p.time),
     date |-> parse_date(IF Truthy(p.date) THEN p.date ELSE RaceGet(p, "date")),
     section |-> Or(Or(p.section, RaceGet(p, "section")), JStr(<<>>)),
     meet_name |-> Or(Or(Or(RaceGet(p, "meet_name"), RaceGet(p, "meet")),
                         RaceGet(p, "name")), JStr(<<>>)),
     place |-> p.place]

normalize_entry(p) ==
    [time |-> time_val_of(p.time),
     date |-> parse_date(IF Truthy(RaceGet(p, "date")) THEN RaceGet(p, "date") ELSE p.date),
     section |-> Or(Or(RaceGet(p, "section"), p.section), JStr(<<>>)),
     meet_name |-> Or(Or(Or(RaceGet(p, "meet_name"), RaceGet(p, "meet")),
                         RaceGet(p, "name")), JStr(<<>>)),
     place |-> p.place]

\* The loop of extract_xc_performances_from_season is entered and meets an
\* entry that is no mapping: p.get raises AttributeError.
extract_raises(season_block) ==
    /\ season_block.isdict
    /\ season_block.season_xc_performances.items # <<>>
    /\ season_block.season_xc_performances.islist
    /\ \E i \in 1..Len(season_block.season_xc_performances.items) :
          ~season_block.season_xc_performances.items[i].isdict

\* The list extract_xc_performances_from_season returns when it does not raise.
extract_xc_performances_from_season(season_block) ==
    IF ~season_block.isdict THEN <<>>
    ELSE LET perfs == season_block.season_xc_performances
         IN  IF perfs.items = <<>> \/ ~perfs.islist THEN <<>>
             ELSE [i \in 1..Len(perfs.items) |-> normalize_entry(perfs.items[i])]

(***************************************************************************)
(* The deduplicator.                                                       *)
(***************************************************************************)
date_key(p) == IF ~IsNone(p.date) THEN isoformat(p.date.v) ELSE <<"n","o","d","a","t","e">>
\* sec_key without the lower-casing.
sec_key_case_sensitive(p) == IF Truthy(p.section) THEN JoinSpace(Split(Str(p.section))) ELSE <<>>

sec_key(p) == IF Truthy(p.section) THEN JoinSpace(Split(Lower(Str(p.section)))) ELSE <<>>
time_key(p) == IF IsNone(p.time) THEN None ELSE Some(Round6(p.time.v))
perf_key(p) == <<date_key(p), sec_key(p), time_key(p)>>

RECURSIVE dedupe_loop(_, _, _)
dedupe_loop(perf_list, seen, unique) ==
    IF perf_list = <<>> THEN unique
    ELSE LET p == Head(perf_list)
             key == perf_key(p)
         IN  IF key \in seen
             THEN dedupe_loop(Tail(perf_list), seen, unique)
             ELSE dedupe_loop(Tail(perf_list), seen \cup {key}, Append(unique, p))

\* dedupe_performances with a key forgotten once it has matched: the third
\* occurrence of a result is kept again.
RECURSIVE dedupe_toggle_loop(_, _, _)
dedupe_toggle_loop(perf_list, seen, unique) ==
    IF perf_list = <<>> THEN unique
    ELSE LET p == Head(perf_list)
             key == perf_key(p)
         IN  IF key \in seen
             THEN dedupe_toggle_loop(Tail(perf_list), seen \ {key}, unique)
             ELSE dedupe_toggle_loop(Tail(perf_list), seen \cup {key}, Append(unique, p))
dedupe_toggle(perf_list) == dedupe_toggle_loop(perf_list, {}, <<>>)

\* dedupe_performances keeping the last record of each key.
dedupe_keep_last(perf_list) ==
    LET last(i) == \A j \in (i + 1)..Len(perf_list) : perf_key(perf_list[j]) # perf_key(perf_list[i])
        idx == {i \in 1..Len(perf_list) : last(i)}
        RECURSIVE pick(_)
        pick(i) == IF i > Len(perf_list) THEN <<>>
                   ELSE (IF i \in idx THEN <<perf_list[i]>> ELSE <<>>) \o pick(i + 1)
    IN  pick(1)

\* dedupe_performances keeping every record.
dedupe_keep_all(perf_list) == perf_list

dedupe_performances(perf_list) == dedupe_loop(perf_list, {}, <<>>)

(***************************************************************************)
(* The statistics engine.  A history is [kind, season_ratings]: kind is    *)
(* "dict" for a mapping, season_ratings the list under that key (<<>> when *)
(* the key is absent or the list empty: both are falsy).                   *)
(***************************************************************************)
SeasonRatings(history) == IF history.kind = "dict" THEN history.season_ratings ELSE <<>>

\* x.get(...) on an x that is no mapping
AttributeError == [raised |-> "AttributeError"]

\* The test of the inner loop of gather_lifetime_pr_before_date: p's time is
\* appended to times.
\* lifetime_keeps with a record without a date left out when there is a cutoff.
lifetime_keeps_dated_only(p, cutoff_date) ==
    /\ ~IsNone(p.time)
    /\ looks_like_8k(p.section)
    /\ (IsNone(cutoff_date) \/ (~IsNone(p.date) /\ DateLT(p.date.v, cutoff_date.v)))

\* lifetime_keeps with the race of the cutoff day kept.
lifetime_keeps_through_cutoff(p, cutoff_date) ==
    /\ ~IsNone(p.time)
    /\ looks_like_8k(p.section)
    /\ ~(~IsNone(cutoff_date) /\ ~IsNone(p.date) /\ DateLT(cutoff_date.v, p.date.v))

lifetime_keeps(p, cutoff_date) ==
    /\ ~IsNone(p.time)
    /\ looks_like_8k(p.section)
    /\ ~(~IsNone(cutoff_date) /\ ~IsNone(p.date) /\ ~DateLT(p.date.v, cutoff_date.v))

\* lifetime_times with the first season block read only.
lifetime_times_first_season(season_ratings, cutoff_date) ==
    IF season_ratings = <<>> THEN <<>>
    ELSE LET perfs == extract_xc_performances_from_season(Head(season_ratings))
             keep(p) == lifetime_keeps(p, cutoff_date)
             kept == SelectSeq(perfs, keep)
         IN  [i \in 1..Len(kept) |-> kept[i].time.v]

RECURSIVE lifetime_times(_, _)
lifetime_times(season_ratings, cutoff_date) ==
    IF season_ratings = <<>> THEN <<>>
    ELSE LET perfs == extract_xc_performances_from_season(Head(season_ratings))
             keep(p) == lifetime_keeps(p, cutoff_date)
             kept == SelectSeq(perfs, keep)
         IN  [i \in 1..Len(kept) |-> kept[i].time.v]
             \o lifetime_times(Tail(season_ratings), cutoff_date)

gather_lifetime_pr_before_date(history, cutoff_date) ==
    LET season_ratings == SeasonRatings(history)
    IN  IF season_ratings = <<>> THEN None
        ELSE IF \E i \in 1..Len(season_ratings) : extract_raises(season_ratings[i])
        THEN AttributeError
        ELSE LET times == lifetime_times(season_ratings, cutoff_date)
             IN  IF times = <<>> THEN None ELSE Some(nanmin(times))

\* year_block of a season: the year of a season mapping, the season itself
\* when it is an int, else None.
year_block(season) ==
    IF season.season.kind \in {"dict", "int"} THEN season.season.year ELSE JNull

\* YearDiffers with every block taken as one of the target year.
year_never_differs(yb, nat_year) == FALSE

\* year_block != nat_year, for an int nat_year
YearDiffers(yb, nat_year) == ~(yb.t = "num" /\ yb.n = nat_year /\ yb.f = 0)

\* The test of the filter loop of gather_season_stats: p is kept.
\* season_keeps with the race of the nationals day kept.
season_keeps_through_cutoff(p, nat_date) ==
    ~(~IsNone(nat_date) /\ ~IsNone(p.date) /\ DateLT(nat_date.v, p.date.v))

\* season_keeps with no race left out.
season_keeps_all(p, nat_date) == TRUE

season_keeps(p, nat_date) ==
    ~(~IsNone(nat_date) /\ ~IsNone(p.date) /\ DateGE(p.date.v, nat_date.v))

RECURSIVE season_perfs_of(_, _, _)
season_perfs_of(season_ratings, nat_year, nat_date) ==
    IF season_ratings = <<>> THEN <<>>
    ELSE LET season == Head(season_ratings)
             rest == season_perfs_of(Tail(season_ratings), nat_year, nat_date)
             keep(p) == season_keeps(p, nat_date)
         IN  IF YearDiffers(year_block(season), nat_year) THEN rest
             ELSE SelectSeq(extract_xc_performances_from_season(season), keep) \o rest

\* is_season_8k without the distance test.
is_season_timed(p) == ~IsNone(p.time)

is_season_8k(p) == ~IsNone(p.time) /\ looks_like_8k(p.section)

TimesOf(perfs) == [i \in 1..Len(perfs) |-> perfs[i].time.v]

\* consistency_of computed from one time on.
consistency_of_any(season_8k) ==
    IF Len(season_8k) >= 1 THEN Some(np_std(TimesOf(season_8k), 0)) ELSE None

\* consistency_of as the sample standard deviation (ddof=1).
consistency_sample(season_8k) ==
    IF Len(season_8k) >= 2 THEN Some(np_std(TimesOf(season_8k), 1)) ELSE None

\* consistency: np.std(arr, ddof=0) when len(season_8k) >= 2
consistency_of(season_8k) ==
    IF Len(season_8k) >= 2 THEN Some(np_std(TimesOf(season_8k), 0)) ELSE None

\* best_date_of as the earliest date.
earliest_date_of(candidates) ==
    CHOOSE d \in candidates : \A e \in candidates : ~DateLT(e, d)

\* max(candidates)
best_date_of(candidates) ==
    CHOOSE d \in candidates : \A e \in candidates : ~DateLT(d, e)

\* days_since: nat_date minus the most recent date among the season_8k races
\* that equal sr_time and have a date.
days_since_of(season_8k, sr_time, nat_date) ==
    IF ~IsNone(sr_time) /\ ~IsNone(nat_date)
    THEN LET candidates == {season_8k[i].date.v : i \in
                              {j \in 1..Len(season_8k) :
                                  /\ season_8k[j].time.v = sr_time.v
                                  /\ ~IsNone(season_8k[j].date)}}
         IN  IF candidates # {}
             THEN Some(DaysBetween(nat_date.v, best_date_of(candidates)))
             ELSE None
    ELSE None

NoSeasonStats ==
    [num_races |-> 0, sr_time |-> None, consistency |-> None, days_since_season_pr |-> None]

\* gather_season_stats with num_races alone counted on the deduplicated list.
gather_season_stats_count_deduped(history, nat_year, nat_date) ==
    LET season_ratings == SeasonRatings(history)
    IN  IF season_ratings = <<>> THEN NoSeasonStats
        ELSE LET season_perfs == season_perfs_of(season_ratings, nat_year, nat_date)
                 season_8k == SelectSeq(season_perfs, is_season_8k)
                 sr_time == IF season_8k # <<>> THEN Some(nanmin(TimesOf(season_8k))) ELSE None
             IN  [num_races |-> Len(dedupe_performances(season_perfs)),
                  sr_time |-> sr_time,
                  consistency |-> consistency_of(season_8k),
                  days_since_season_pr |-> days_since_of(season_8k, sr_time, nat_date)]

gather_season_stats(history, nat_year, nat_date) ==
    LET season_ratings == SeasonRatings(history)
    IN  IF season_ratings = <<>> THEN NoSeasonStats
        ELSE IF \E i \in 1..Len(season_ratings) :
                   \/ ~season_ratings[i].isdict
                   \/ /\ ~YearDiffers(year_block(season_ratings[i]), nat_year)
                      /\ extract_raises(season_ratings[i])
        THEN AttributeError
        ELSE LET season_perfs ==
                     dedupe_performances(season_perfs_of(season_ratings, nat_year, nat_date))
                 season_8k == SelectSeq(season_perfs, is_season_8k)
                 sr_time == IF season_8k # <<>> THEN Some(nanmin(TimesOf(season_8k))) ELSE None
             IN  [num_races |-> Len(season_perfs),
                  sr_time |-> sr_time,
                  consistency |-> consistency_of(season_8k),
                  days_since_season_pr |-> days_since_of(season_8k, sr_time, nat_date)]

(***************************************************************************)
(* The inputs of the model.                                                *)
(***************************************************************************)
Chars8k == <<"8","k">>
Chars8K == <<"8","K">>
Chars5k == <<"5","k">>
Sep01 == <<"2","0","2","4","-","0","9","-","0","1">>
Oct15 == <<"2","0","2","4","-","1","0","-","1","5">>
Nov20 == <<"2","0","2","4","-","1","1","-","2","0">>
Dec01 == <<"2","0","2","4","-","1","2","-","0","1">>

\* A raw entry as the ranking API reports it: the time and the place on the
\* entry, the section, the date and the meet name on its race.
RawEntry(time, date, section) ==
    [isdict |-> TRUE, time |-> time, place |-> JNull, section |-> JNull, date |-> JNull,
     race |-> [isdict |-> TRUE, meet_name |-> JNull, meet |-> JNull, name |-> JNull,
               section |-> section, date |-> date]]

\* The (time, section) pairs and the dates of the entries of a history: two
\* championship-distance times, an entry without a time, and a faster result
\* over another distance; no date, two dates of the season and a third.
RawKinds == {<<JInt(1550), JStr(Chars8K)>>, <<JInt(1600), JStr(Chars8K)>>,
             <<JNull, JStr(Chars8K)>>, <<JInt(1500), JStr(Chars5k)>>}
RawDates == {JNull, JStr(Sep01), JStr(Oct15), JStr(Nov20)}
RawEntries == {RawEntry(k[1], d, k[2]) : k \in RawKinds, d \in RawDates}

\* The entries of the histories the standard deviation is computed on: dated
\* championship-distance results of the season.
StdTimes == {JInt(1500), JInt(1510), JInt(1550), JInt(1600), JNum(1550, 4)}
StdEntries == {RawEntry(t, d, JStr(Chars8k)) : t \in StdTimes, d \in {JStr(Sep01), JStr(Oct15)}}

Season2024 == [kind |-> "dict", year |-> JInt(2024)]
Season2023 == [kind |-> "dict", year |-> JInt(2023)]
\* The season tags of the blocks of a history, in the order of the list.
SeasonLayouts == {<<>>, <<Season2024>>, <<Season2023, Season2024>>,
                  <<Season2024, Season2024>>}
NatDates == {None, Some(IsoDateOf(Oct15)), Some(IsoDateOf(Nov20))}
NatYears == {2024}

EmptySeason(tag) ==
    [isdict |-> TRUE, season |-> tag,
     season_xc_performances |-> [islist |-> TRUE, items |-> <<>>]]

RECURSIVE CountPerfs(_)
CountPerfs(season_ratings) ==
    IF season_ratings = <<>> THEN 0
    ELSE Len(Head(season_ratings).season_xc_performances.items)
         + CountPerfs(Tail(season_ratings))

\* The season block i of the history with the raw entry e put at position j.
AddEntry(h, i, j, e) ==
    LET items == h.season_ratings[i].season_xc_performances.items
    IN  [h EXCEPT !.season_ratings[i].season_xc_performances.items =
            SubSeq(items, 1, j - 1) \o <<e>> \o SubSeq(items, j, Len(items))]

(***************************************************************************)
(* The state: the decoded input (one athlete's history, the target year    *)
(* and the nationals date of that year) and what build_rows_from_json      *)
(* computes from it.                                                       *)
(***************************************************************************)
VARIABLES history, nat_year, nat_date, pr_time, season_stats, pc,
          perf_list, unique, twice,
          season_block, out, label, is_8k, nat_place, all_american,
          data, rows, years_left, athlete_ids,
          track_args, is_track,
          max_tries, attempts, slept, fetched,
          chain, url, races

vars == <<history, nat_year, nat_date, pr_time, season_stats, pc, perf_list, unique, twice,
          season_block, out, label, is_8k, nat_place, all_american,
          data, rows, years_left, athlete_ids, track_args, is_track,
          max_tries, attempts, slept, fetched, chain, url, races>>
statsVars == <<history, nat_year, nat_date, pr_time, season_stats>>
dedupeVars == <<perf_list, unique, twice>>
\* What one call of the normalizer, of the classifier and of the accolade
\* test reads and returns.
normVars == <<season_block, out>>
classVars == <<label, is_8k>>
rowVars == <<nat_place, all_american>>

\* No call of the normalizer, the classifier or the accolade test is under way.
NormIdle == season_block = EmptySeason(Season2024) /\ out = <<>>
ClassIdle == label = JNull /\ is_8k = FALSE
RowIdle == nat_place = JNull /\ all_american = 0

\* What build_rows_from_json reads and returns and where its two loops stand,
\* what one call of is_track_meet reads and returns, and what safe_get_json
\* and fetch_all_races hold while they run.
tableVars == <<data, rows, years_left, athlete_ids>>
trackVars == <<track_args, is_track>>
fetchVars == <<max_tries, attempts, slept, fetched>>
pageVars == <<chain, url, races>>
laterVars == <<tableVars, trackVars, fetchVars, pageVars>>

\* No call of these is under way.
TableIdle == data = <<>> /\ rows = <<>> /\ years_left = <<>> /\ athlete_ids = <<>>
TrackIdle == track_args = <<JNull, JNull>> /\ is_track = FALSE
FetchIdle == max_tries = 0 /\ attempts = <<>> /\ slept = 0 /\ fetched = JNull
PageIdle == chain = <<>> /\ url = None /\ races = <<>>
LaterIdle == TableIdle /\ TrackIdle /\ FetchIdle /\ PageIdle

Init ==
    /\ \E layout \in SeasonLayouts :
          history = [kind |-> "dict",
                     season_ratings |-> [i \in 1..Len(layout) |-> EmptySeason(layout[i])]]
    /\ nat_year \in NatYears
    /\ nat_date \in NatDates
    /\ pr_time = None
    /\ season_stats = NoSeasonStats
    /\ pc = "load"
    /\ perf_list = <<>> /\ unique = <<>> /\ twice = <<>>
    /\ NormIdle /\ ClassIdle /\ RowIdle /\ LaterIdle

\* The season block i of the decoded history holds one more raw entry.
LoadPerformance(i, e) ==
    /\ pc = "load"
    /\ CountPerfs(history.season_ratings) < MaxPerfs
    /\ history' = AddEntry(history, i,
                           Len(history.season_ratings[i].season_xc_performances.items) + 1, e)
    /\ UNCHANGED <<nat_year, nat_date, pr_time, season_stats, pc, dedupeVars, normVars, classVars, rowVars, laterVars>>

\* build_rows_from_json, the statistics of one athlete and year.
ComputeStatistics ==
    /\ pc = "load"
    /\ LET pr == gather_lifetime_pr_before_date(history, nat_date)
           stats == gather_season_stats(history, nat_year, nat_date)
       IN  IF pr = AttributeError
           THEN pr_time' = pr /\ season_stats' = season_stats /\ pc' = "raised"
           ELSE /\ pr_time' = pr
                /\ season_stats' = stats
                /\ pc' = IF stats = AttributeError THEN "raised" ELSE "done"
    /\ UNCHANGED <<history, nat_year, nat_date, dedupeVars, normVars, classVars, rowVars, laterVars>>

Next ==
    \/ \E i \in 1..Len(history.season_ratings), e \in RawEntries : LoadPerformance(i, e)
    \/ ComputeStatistics

Spec == Init /\ [][Next]_vars

\* The same steps on histories whose entries name their meet, a track meet
\* or a cross-country one.
MeetIndoor == <<"I","n","d","o","o","r"," ","T","r","a","c","k">>
MeetXC == <<"X","C"," ","I","n","v","i","t","e">>
Chars8000Meters == <<"8","0","0","0"," ","M","e","t","e","r","s">>
RawMeetEntry(time, date, section, meet_name) ==
    [RawEntry(time, date, section) EXCEPT !.race.meet_name = meet_name]
TrackEntries ==
    {RawMeetEntry(t, d, JStr(Chars8k), JStr(m)) :
        t \in {JInt(1500), JInt(1550)}, d \in {JStr(Sep01), JStr(Oct15)},
        m \in {MeetIndoor, MeetXC}}
    \cup {RawMeetEntry(JInt(1490), d, JStr(Chars8000Meters), JStr(MeetXC)) :
             d \in {JStr(Sep01), JStr(Oct15)}}

NextTrack ==
    \/ \E i \in 1..Len(history.season_ratings), e \in TrackEntries : LoadPerformance(i, e)
    \/ ComputeStatistics

SpecTrack == Init /\ [][NextTrack]_vars

\* The same steps on degenerate input: a history that is no mapping or has
\* no season list, seasons that are no mapping, carry no year or carry it as
\* an int, entries without a time, a date or a section, and an entry that is
\* no mapping.
SeasonNoYear == [kind |-> "other", year |-> JNull]
SeasonInt2024 == [kind |-> "int", year |-> JInt(2024)]
NoMappingSeason == [EmptySeason(SeasonNoYear) EXCEPT !.isdict = FALSE]
DegenerateLayouts ==
    {<<>>, <<EmptySeason(Season2024)>>, <<EmptySeason(SeasonNoYear)>>,
     <<EmptySeason(SeasonInt2024)>>, <<NoMappingSeason>>,
     <<EmptySeason(Season2024), NoMappingSeason>>,
     <<EmptySeason(SeasonNoYear), EmptySeason(Season2024)>>}
DegenerateEntries ==
    {RawEntry(t, d, sec) : t \in {JNull, JInt(1550)}, d \in {JNull, JStr(Sep01)},
                           sec \in {JNull, JStr(Chars8K)}}
    \cup {[RawEntry(JNull, JNull, JNull) EXCEPT !.isdict = FALSE]}

InitDegenerate ==
    /\ \/ history = [kind |-> "other", season_ratings |-> <<>>]
       \/ \E layout \in DegenerateLayouts :
             history = [kind |-> "dict", season_ratings |-> layout]
    /\ nat_year \in NatYears
    /\ nat_date \in NatDates
    /\ pr_time = None
    /\ season_stats = NoSeasonStats
    /\ pc = "load"
    /\ perf_list = <<>> /\ unique = <<>> /\ twice = <<>>
    /\ NormIdle /\ ClassIdle /\ RowIdle /\ LaterIdle

NextDegenerate ==
    \/ \E i \in {j \in 1..Len(history.season_ratings) : history.season_ratings[j].isdict},
          e \in DegenerateEntries : LoadPerformance(i, e)
    \/ ComputeStatistics

SpecDegenerate == InitDegenerate /\ [][NextDegenerate]_vars

\* The same steps on histories of dated championship-distance results.
NextStd ==
    \/ \E i \in 1..Len(history.season_ratings), e \in StdEntries : LoadPerformance(i, e)
    \/ ComputeStatistics

SpecStd == Init /\ [][NextStd]_vars

(***************************************************************************)
(* dedupe_performances applied to a list of normalized records, and to its *)
(* own result.                                                             *)
(***************************************************************************)
Jan01 == <<"2","0","2","4","-","0","1","-","0","1">>
Perf(time, date, section) ==
    [time |-> time, date |-> date, section |-> JStr(section),
     meet_name |-> JStr(<<>>), place |-> JNull]
PerfTimes == {None, Some(Secs(1500)), Some(Secs(1501))}
PerfDates == {None, Some(IsoDateOf(Jan01))}
PerfSections == {Chars8k, Chars8K}
PerfRecords == {Perf(t, d, sec) : t \in PerfTimes, d \in PerfDates, sec \in PerfSections}

InitDedupe ==
    /\ history = [kind |-> "dict", season_ratings |-> <<>>]
    /\ nat_year \in NatYears
    /\ nat_date = None
    /\ pr_time = None
    /\ season_stats = NoSeasonStats
    /\ pc = "list"
    /\ perf_list = <<>> /\ unique = <<>> /\ twice = <<>>
    /\ NormIdle /\ ClassIdle /\ RowIdle /\ LaterIdle

\* The list passed to dedupe_performances holds one more record.
AppendPerf(p) ==
    /\ pc = "list"
    /\ Len(perf_list) < MaxList
    /\ perf_list' = Append(perf_list, p)
    /\ UNCHANGED <<statsVars, pc, unique, twice, normVars, classVars, rowVars, laterVars>>

\* Dedupe with the duplicates removed from the list that was passed in.
DedupeInPlace ==
    /\ pc = "list"
    /\ unique' = dedupe_performances(perf_list)
    /\ perf_list' = unique'
    /\ pc' = "deduped"
    /\ UNCHANGED <<statsVars, twice, normVars, classVars, rowVars, laterVars>>

\* unique = dedupe_performances(perf_list)
Dedupe ==
    /\ pc = "list"
    /\ unique' = dedupe_performances(perf_list)
    /\ pc' = "deduped"
    /\ UNCHANGED <<statsVars, perf_list, twice, normVars, classVars, rowVars, laterVars>>

\* dedupe_performances(unique)
DedupeAgain ==
    /\ pc = "deduped"
    /\ twice' = dedupe_performances(unique)
    /\ pc' = "twice"
    /\ UNCHANGED <<statsVars, perf_list, unique, normVars, classVars, rowVars, laterVars>>

NextDedupe ==
    \/ \E p \in PerfRecords : AppendPerf(p)
    \/ Dedupe
    \/ DedupeAgain

SpecDedupe == InitDedupe /\ [][NextDedupe]_vars

\* The statistics of a history and the deduplication of a list, side by side.
InitFrame == Init \/ InitDedupe
NextFrame == NextStd \/ NextDedupe
SpecFrame == InitFrame /\ [][NextFrame]_vars

(***************************************************************************)
(* dedupe_performances applied to records that differ from one result in   *)
(* one part: the meet name, the place, the section, the time or the date.  *)
(***************************************************************************)
SecAB == <<"a"," ","b">>
SecABLoud == <<"A","\t"," ","b">>
SecABPadded == <<" ","a"," ","b"," ">>
SecABJoined == <<"a","b">>
SecBlank == <<" ">>
MeetA == <<"M","e","e","t"," ","A">>

PerfFull(time, date, section, meet_name, place) ==
    [time |-> time, date |-> date, section |-> JStr(section),
     meet_name |-> JStr(meet_name), place |-> place]

KeyBase == PerfFull(Some(Secs(1500)), Some(IsoDateOf(Jan01)), SecAB, <<>>, JNull)
KeyOtherMeet == [KeyBase EXCEPT !.meet_name = JStr(MeetA)]
KeyOtherPlace == [KeyBase EXCEPT !.place = JInt(3)]
KeyPadded == [KeyBase EXCEPT !.section = JStr(SecABPadded)]
KeyAbsent == PerfFull(None, None, <<>>, <<>>, JNull)
KeyRecords ==
    {KeyBase, KeyOtherMeet, KeyOtherPlace, KeyPadded, KeyAbsent,
     [KeyAbsent EXCEPT !.section = JStr(SecBlank)]}
    \cup {[KeyBase EXCEPT !.section = JStr(sec)] : sec \in {SecABLoud, SecABJoined, <<>>}}
    \cup {[KeyBase EXCEPT !.time = t] : t \in {None, Some(Float(1500, 4)), Some(Float(1500, 10))}}
    \cup {[KeyBase EXCEPT !.date = d] : d \in {None, Some(IsoDateOf(Sep01))}}

NextKey ==
    \/ \E p \in KeyRecords : AppendPerf(p)
    \/ Dedupe

SpecKey == InitDedupe /\ [][NextKey]_vars

(***************************************************************************)
(* The All-American flag of a row.  A nationals placement is the value     *)
(* nat_place_map.get((year, aid)) of the decoded input: None, an int, a    *)
(* float or a str, [t, n, f, s] with t "null", "int", "float" or "str".    *)
(***************************************************************************)
MaxPlace == 60
PlaceInt(n) == [t |-> "int", n |-> n, f |-> 0, s |-> <<>>]
PlaceFloat(n, f) == [t |-> "float", n |-> n, f |-> f, s |-> <<>>]
CharsDNF == <<"D","N","F">>
PlaceValues ==
    {JNull, JStr(CharsDNF), JStr(<<"1","2">>), JStr(<<>>),
     PlaceFloat(1, 0), PlaceFloat(40, 0), PlaceFloat(39, FracUnit \div 2)}
    \cup {PlaceInt(n) : n \in -1..MaxPlace}

\* The last placement that makes an All-American.
AllAmericanPlaces == 40

\* all_american with the last All-American placement left out.
all_american_below(place) ==
    IF place.t = "int" /\ place.n < AllAmericanPlaces THEN 1 ELSE 0

\* 1 if (isinstance(nat_place, int) and nat_place <= 40) else 0
all_american_of(place) ==
    IF place.t = "int" /\ place.n <= AllAmericanPlaces THEN 1 ELSE 0

InitRow ==
    /\ history = [kind |-> "dict", season_ratings |-> <<>>]
    /\ nat_year \in NatYears
    /\ nat_date = None
    /\ pr_time = None
    /\ season_stats = NoSeasonStats
    /\ pc = "place"
    /\ perf_list = <<>> /\ unique = <<>> /\ twice = <<>>
    /\ NormIdle /\ ClassIdle /\ LaterIdle
    /\ nat_place \in PlaceValues
    /\ all_american = 0

\* build_rows_from_json, the All-American flag of one athlete and year.
ResolveAccolade ==
    /\ pc = "place"
    /\ all_american' = all_american_of(nat_place)
    /\ pc' = "row"
    /\ UNCHANGED <<statsVars, dedupeVars, normVars, classVars, nat_place, laterVars>>

NextRow == ResolveAccolade

SpecRow == InitRow /\ [][NextRow]_vars

(***************************************************************************)
(* looks_like_8k applied to a section label: no label, a number, or a text *)
(* of up to MaxLabel characters.                                           *)
(***************************************************************************)
MaxLabel == 4
LabelChars == {"8", "k", "K", "0", "1", " "}
LabelSeeds == {JNull, JStr(<<>>), JInt(0), JInt(18), JInt(8000), JInt(18000)}

InitClassify ==
    /\ history = [kind |-> "dict", season_ratings |-> <<>>]
    /\ nat_year \in NatYears
    /\ nat_date = None
    /\ pr_time = None
    /\ season_stats = NoSeasonStats
    /\ pc = "label"
    /\ perf_list = <<>> /\ unique = <<>> /\ twice = <<>>
    /\ NormIdle /\ RowIdle /\ LaterIdle
    /\ label \in LabelSeeds
    /\ is_8k = FALSE

\* The label is one character longer.
AppendChar(c) ==
    /\ pc = "label"
    /\ label.t = "str"
    /\ Len(label.s) < MaxLabel
    /\ label' = JStr(Append(label.s, c))
    /\ UNCHANGED <<statsVars, pc, dedupeVars, normVars, is_8k, rowVars, laterVars>>

\* is_8k = looks_like_8k(label)
Classify ==
    /\ pc = "label"
    /\ is_8k' = looks_like_8k(label)
    /\ pc' = "classified"
    /\ UNCHANGED <<statsVars, dedupeVars, normVars, label, rowVars, laterVars>>

NextClassify ==
    \/ \E c \in LabelChars : AppendChar(c)
    \/ Classify

SpecClassify == InitClassify /\ [][NextClassify]_vars

(***************************************************************************)
(* extract_xc_performances_from_season applied to one season block.  The   *)
(* block is a mapping or not; its season_xc_performances is a list         *)
(* (islist), absent (no list, nothing in it) or another value with         *)
(* something in it (no list, items); its entries vary in one field each.   *)
(***************************************************************************)
CharsTBD == <<"T","B","D">>
MeetB == <<"M","e","e","t"," ","B">>
MeetC == <<"M","e","e","t"," ","C">>

\* The time values of the raw entries: absent, numbers, numerals, and values
\* float() refuses.
NormTimes ==
    {JNull, JInt(1500), JInt(0), JInt(-5), JNum(1500, FracUnit \div 2), JOther,
     JStr(<<"1","5","0","0">>), JStr(<<"1","5",".","5">>), JStr(<<" ","1","5"," ">>),
     JStr(<<"0">>), JStr(<<"-","5">>), JStr(<<"+","5",".">>),
     JStr(CharsDNF), JStr(<<>>), JStr(<<" ">>), JStr(<<"1","5",":","3","0">>),
     JStr(<<"1",".","2",".","3">>), JStr(<<".">>), JStr(<<"-">>)}

NormBase ==
    [isdict |-> TRUE, time |-> JInt(1500), place |-> JInt(3),
     section |-> JStr(Chars5k), date |-> JStr(Oct15),
     race |-> [isdict |-> TRUE, meet_name |-> JStr(MeetA), meet |-> JStr(MeetB),
               name |-> JStr(MeetC), section |-> JStr(Chars8k), date |-> JStr(Sep01)]]
\* A value in the list that is no mapping (null, a number, a text).
NormNoMapping == [NormBase EXCEPT !.isdict = FALSE]

NormEntries ==
    {NormBase, NormNoMapping}
    \cup {[NormBase EXCEPT !.time = t] : t \in NormTimes}
    \cup {[NormBase EXCEPT !.race.section = x] : x \in {JStr(<<>>), JNull, JInt(0)}}
    \cup {[NormBase EXCEPT !.race.section = JNull, !.section = x] : x \in {JStr(<<>>), JNull}}
    \cup {[NormBase EXCEPT !.race.date = x] : x \in {JStr(<<>>), JNull, JStr(CharsTBD)}}
    \cup {[NormBase EXCEPT !.race.date = JNull, !.date = x] : x \in {JNull, JStr(CharsTBD)}}
    \cup {[NormBase EXCEPT !.race.meet_name = x] : x \in {JStr(<<>>), JNull}}
    \cup {[NormBase EXCEPT !.race.meet_name = JNull, !.race.meet = x] : x \in {JStr(<<>>), JNull}}
    \cup {[NormBase EXCEPT !.race.meet_name = JNull, !.race.meet = JNull, !.race.name = x] :
             x \in {JStr(<<>>), JNull}}
    \cup {[NormBase EXCEPT !.place = x] : x \in {JNull, JStr(CharsDNF)}}
    \cup {[NormBase EXCEPT !.race.isdict = FALSE, !.section = x[1], !.date = x[2]] :
             x \in {<<JStr(Chars5k), JStr(Oct15)>>, <<JNull, JNull>>}}

InitNorm ==
    /\ history = [kind |-> "dict", season_ratings |-> <<>>]
    /\ nat_year \in NatYears
    /\ nat_date = None
    /\ pr_time = None
    /\ season_stats = NoSeasonStats
    /\ pc = "block"
    /\ perf_list = <<>> /\ unique = <<>> /\ twice = <<>>
    /\ ClassIdle /\ RowIdle /\ LaterIdle
    /\ \E d \in BOOLEAN, l \in BOOLEAN :
          season_block = [EmptySeason(Season2024) EXCEPT
                             !.isdict = d, !.season_xc_performances.islist = l]
    /\ out = <<>>

\* season_xc_performances holds one more entry.
LoadEntry(e) ==
    /\ pc = "block"
    /\ Len(season_block.season_xc_performances.items) < MaxPerfs
    /\ season_block' = [season_block EXCEPT !.season_xc_performances.items = Append(@, e)]
    /\ UNCHANGED <<statsVars, pc, dedupeVars, out, classVars, rowVars, laterVars>>

\* out = extract_xc_performances_from_season(season_block), or the call raises.
Extract ==
    /\ pc = "block"
    /\ IF extract_raises(season_block)
       THEN out' = AttributeError /\ pc' = "raised"
       ELSE out' = extract_xc_performances_from_season(season_block) /\ pc' = "extracted"
    /\ UNCHANGED <<statsVars, dedupeVars, season_block, classVars, rowVars, laterVars>>

NextNorm ==
    \/ \E e \in NormEntries : LoadEntry(e)
    \/ Extract

SpecNorm == InitNorm /\ [][NextNorm]_vars

(***************************************************************************)
(* One call of is_track_meet, as build_rows_from_json's module and as the  *)
(* fetch scripts define it, on a meet name and a section.                  *)
(***************************************************************************)
\* No athlete's statistics and no deduplication are under way.
StatsIdle ==
    /\ history = [kind |-> "dict", season_ratings |-> <<>>]
    /\ nat_year \in NatYears
    /\ nat_date = None
    /\ pr_time = None
    /\ season_stats = NoSeasonStats
DedupeIdle == perf_list = <<>> /\ unique = <<>> /\ twice = <<>>

MeetNames ==
    {JNull, JStr(<<>>), JInt(0), JInt(5), JStr(MeetIndoor), JStr(MeetXC),
     JStr(<<"I","N","D","O","O","R">>), JStr(<<"G","y","m"," ","O","p","e","n">>),
     JStr(<<"G","Y","M"," ","O","P","E","N">>)}
MeetSections ==
    {JNull, JStr(<<>>), JStr(Chars8K), JStr(Chars8000Meters),
     JStr(<<"3","0","0","0","m">>), JStr(<<"3","0","0","0","M"," ">>),
     JStr(<<"t","r","a","c","k">>)}

InitTrackMeet ==
    /\ pc = "meet"
    /\ StatsIdle /\ DedupeIdle /\ NormIdle /\ ClassIdle /\ RowIdle
    /\ TableIdle /\ FetchIdle /\ PageIdle
    /\ track_args \in MeetNames \X MeetSections
    /\ is_track = FALSE

\* is_track_meet of step3_compile_data.py
TrackMeet ==
    /\ pc = "meet"
    /\ IF is_track_meet_raises(track_args[1], track_args[2])
       THEN is_track' = is_track /\ pc' = "raised"
       ELSE is_track' = is_track_meet(track_args[1], track_args[2]) /\ pc' = "track"
    /\ UNCHANGED <<statsVars, dedupeVars, normVars, classVars, rowVars,
                   tableVars, track_args, fetchVars, pageVars>>

\* is_track_meet of lacctic_fetch.py and fetch_races.py
TrackMeetFetch ==
    /\ pc = "meet"
    /\ IF is_track_meet_raises(track_args[1], track_args[2])
       THEN is_track' = is_track /\ pc' = "raised"
       ELSE /\ is_track' = is_track_meet_fetch(track_args[1], track_args[2])
            /\ pc' = "track_fetch"
    /\ UNCHANGED <<statsVars, dedupeVars, normVars, classVars, rowVars,
                   tableVars, track_args, fetchVars, pageVars>>

NextTrackMeet ==
    \/ TrackMeet
    \/ TrackMeetFetch

SpecTrackMeet == InitTrackMeet /\ [][NextTrackMeet]_vars

\* The same steps on histories whose blocks carry the tag of the target
\* year, as a mapping or as an int, or of the year before, and whose races
\* are dated in the year before, on the eve of the nationals race or on its
\* day.
Oct15_2023 == <<"2","0","2","3","-","1","0","-","1","5">>
Nov19 == <<"2","0","2","4","-","1","1","-","1","9">>
SeasonTagLayouts ==
    {<<Season2023>>, <<SeasonInt2024>>, <<Season2023, Season2024>>,
     <<Season2024, Season2024>>}
SeasonEntries ==
    {RawEntry(t, d, JStr(Chars8K)) :
        t \in {JInt(1550), JInt(1600)},
        d \in {JNull, JStr(Oct15_2023), JStr(Nov19), JStr(Nov20)}}
    \cup {RawEntry(JInt(1500), JStr(Nov19), JStr(Chars5k))}

InitSeason ==
    /\ \E layout \in SeasonTagLayouts :
          history = [kind |-> "dict",
                     season_ratings |-> [i \in 1..Len(layout) |-> EmptySeason(layout[i])]]
    /\ nat_year \in NatYears
    /\ nat_date \in NatDates
    /\ pr_time = None
    /\ season_stats = NoSeasonStats
    /\ pc = "load"
    /\ DedupeIdle /\ NormIdle /\ ClassIdle /\ RowIdle /\ LaterIdle

NextSeason ==
    \/ \E i \in 1..Len(history.season_ratings), e \in SeasonEntries : LoadPerformance(i, e)
    \/ ComputeStatistics

SpecSeason == InitSeason /\ [][NextSeason]_vars

(***************************************************************************)
(* build_rows_from_json: the loop over the configured years and, within a  *)
(* year, over the athletes of that year's nationals race in ascending id.  *)
(* data is the decoded input file: athletes_by_year, nat_place_map,        *)
(* nat_date_map and athlete_histories, their keys read as ints.  A history *)
(* carries the number of its keys as size (a mapping is falsy when it has  *)
(* none).  A row is kept in its numeric columns.                           *)
(***************************************************************************)
\* CONFIG["YEARS"] and CONFIG["MISSING_NUMERIC"] of config.py
YEARS == <<2021, 2022, 2023, 2024>>
MISSING_NUMERIC == JStr(<<"N","A">>)

\* d.get(k, default)
Get(d, k, default) == IF k \in DOMAIN d THEN d[k] ELSE default

\* nn with an absent statistic written as zero.
nn_zero(x) == IF x = None THEN JInt(0) ELSE x

\* nn(x): the sentinel for None, else x
nn(x) == IF x = None THEN MISSING_NUMERIC ELSE x

\* sorted in descending order.
RECURSIVE sorted_descending(_)
sorted_descending(ids) ==
    IF ids = {} THEN <<>>
    ELSE LET top == CHOOSE a \in ids : \A b \in ids : b <= a
         IN  <<top>> \o sorted_descending(ids \ {top})

\* sorted(athlete_ids)
RECURSIVE sorted(_)
sorted(ids) ==
    IF ids = {} THEN <<>>
    ELSE LET least == CHOOSE a \in ids : \A b \in ids : a <= b
         IN  <<least>> \o sorted(ids \ {least})

\* not history
HistoryFalsy(h) == IF h = None THEN TRUE ELSE h.size = 0

\* build_row with the flag given to a placed athlete with a lifetime PR only.
build_row_flag_needs_pr(aid, year, pr, stats, place) ==
    [Athlete_ID |-> aid,
     Year |-> year,
     Number_of_Races_Run |-> stats.num_races,
     Personal_Record |-> nn(pr),
     Season_Record |-> nn(stats.sr_time),
     Consistency |-> nn(stats.consistency),
     Days_since_Season_PR |-> nn(stats.days_since_season_pr),
     All_American |-> IF pr = None THEN 0 ELSE all_american_of(place)]

\* The row of one athlete and year; num_races is an int, which nn returns
\* as it is.
build_row(aid, year, pr, stats, place) ==
    [Athlete_ID |-> aid,
     Year |-> year,
     Number_of_Races_Run |-> stats.num_races,
     Personal_Record |-> nn(pr),
     Season_Record |-> nn(stats.sr_time),
     Consistency |-> nn(stats.consistency),
     Days_since_Season_PR |-> nn(stats.days_since_season_pr),
     All_American |-> all_american_of(place)]

\* The input files: two athletes, the nationals races of 2023 and 2024.
Athletes == {3, 7}
Nov18_2023 == <<"2","0","2","3","-","1","1","-","1","8">>
Block(tag, items) == [EmptySeason(tag) EXCEPT !.season_xc_performances.items = items]
HistoryOf(season_ratings) ==
    [kind |-> "dict", size |-> 1, season_ratings |-> season_ratings]
\* {} and {"season_ratings": []}
HistoryNoKeys == [kind |-> "dict", size |-> 0, season_ratings |-> <<>>]
HistoryNoSeasons == HistoryOf(<<>>)
\* Two seasons of championship-distance races before the nationals races.
HistoryTwoSeasons ==
    HistoryOf(<<Block(Season2023, <<RawEntry(JInt(1600), JStr(Oct15_2023), JStr(Chars8K))>>),
                Block(Season2024, <<RawEntry(JInt(1600), JStr(Sep01), JStr(Chars8K)),
                                    RawEntry(JInt(1550), JStr(Oct15), JStr(Chars8K))>>)>>)
\* One race, run on the day of the 2024 nationals race.
HistoryLate ==
    HistoryOf(<<Block(Season2024, <<RawEntry(JInt(1550), JStr(Nov20), JStr(Chars8K))>>)>>)
HistoryValues == {HistoryNoKeys, HistoryNoSeasons, HistoryTwoSeasons, HistoryLate}
HistoryMaps ==
    UNION {[ids -> HistoryValues] : ids \in SUBSET Athletes}
AthleteMaps == [{2023, 2024} -> SUBSET Athletes]
PlaceMaps ==
    {<<>>,
     (<<2023, 3>> :> PlaceInt(12)) @@ (<<2023, 7>> :> PlaceInt(41))
        @@ (<<2024, 3>> :> PlaceInt(12)) @@ (<<2024, 7>> :> PlaceInt(12)),
     (<<2023, 3>> :> PlaceInt(41)) @@ (<<2024, 3>> :> PlaceInt(40))
        @@ (<<2024, 7>> :> JStr(CharsDNF))}
DateMaps ==
    {(2023 :> JStr(Nov18_2023)) @@ (2024 :> JStr(Nov20)),
     (2023 :> JStr(Nov18_2023))}

\* nat_date_map: parse_date of every value
nat_date_map == [y \in DOMAIN data.nat_date_map |-> parse_date(data.nat_date_map[y])]

InitRows ==
    /\ pc = "years"
    /\ data \in [athletes_by_year : AthleteMaps, nat_place_map : PlaceMaps,
                 nat_date_map : DateMaps, athlete_histories : HistoryMaps]
    /\ rows = <<>>
    /\ years_left = YEARS
    /\ athlete_ids = <<>>
    /\ StatsIdle /\ DedupeIdle /\ NormIdle /\ ClassIdle /\ RowIdle
    /\ TrackIdle /\ FetchIdle /\ PageIdle

\* for year in CONFIG["YEARS"]: the next year, its nationals date and its
\* athletes
NextYear ==
    /\ pc = "years"
    /\ athlete_ids = <<>>
    /\ years_left # <<>>
    /\ nat_year' = Head(years_left)
    /\ nat_date' = Get(nat_date_map, Head(years_left), None)
    /\ athlete_ids' = sorted(Get(data.athletes_by_year, Head(years_left), {}))
    /\ years_left' = Tail(years_left)
    /\ UNCHANGED <<history, pr_time, season_stats, dedupeVars, normVars, classVars, rowVars,
                   pc, data, rows, trackVars, fetchVars, pageVars>>

\* for aid in sorted(athlete_ids): an athlete without a history is skipped
SkipAthlete ==
    /\ pc = "years"
    /\ athlete_ids # <<>>
    /\ HistoryFalsy(Get(data.athlete_histories, Head(athlete_ids), None))
    /\ history' = Get(data.athlete_histories, Head(athlete_ids), None)
    /\ athlete_ids' = Tail(athlete_ids)
    /\ UNCHANGED <<nat_year, nat_date, pr_time, season_stats, dedupeVars, normVars, classVars,
                   rowVars, pc, data, rows, years_left, trackVars, fetchVars, pageVars>>

\* for aid in sorted(athlete_ids): the row of an athlete with a history
EmitRow ==
    /\ pc = "years"
    /\ athlete_ids # <<>>
    /\ LET aid == Head(athlete_ids)
           h == Get(data.athlete_histories, aid, None)
       IN  /\ ~HistoryFalsy(h)
           /\ history' = h
           /\ LET pr == gather_lifetime_pr_before_date(h, nat_date)
                  stats == gather_season_stats(h, nat_year, nat_date)
                  place == Get(data.nat_place_map, <<nat_year, aid>>, JNull)
                  row == build_row(aid, nat_year, pr, stats, place)
              IN  IF pr = AttributeError \/ stats = AttributeError
                  THEN /\ pc' = "raised"
                       /\ UNCHANGED <<pr_time, season_stats, rowVars, rows, athlete_ids>>
                  ELSE /\ pr_time' = pr
                       /\ season_stats' = stats
                       /\ nat_place' = place
                       /\ all_american' = row.All_American
                       /\ rows' = Append(rows, row)
                       /\ athlete_ids' = Tail(athlete_ids)
                       /\ pc' = pc
    /\ UNCHANGED <<nat_year, nat_date, dedupeVars, normVars, classVars,
                   data, years_left, trackVars, fetchVars, pageVars>>

\* return rows
ReturnRows ==
    /\ pc = "years"
    /\ athlete_ids = <<>>
    /\ years_left = <<>>
    /\ pc' = "returned"
    /\ UNCHANGED <<statsVars, dedupeVars, normVars, classVars, rowVars,
                   tableVars, trackVars, fetchVars, pageVars>>

NextRows ==
    \/ NextYear
    \/ SkipAthlete
    \/ EmitRow
    \/ ReturnRows

SpecRows == InitRows /\ [][NextRows]_vars

(***************************************************************************)
(* safe_get_json(url, params, max_tries): one call.  attempts is the list  *)
(* of the answers to the requests issued so far, slept the number of       *)
(* time.sleep calls, fetched the value returned (JNull for None).  An      *)
(* answer is a response with its status code and its body, or a            *)
(* requests.RequestException raised by requests.get.  The body of a 200    *)
(* response may fail to decode as JSON: r.json() then raises inside the    *)
(* try, an error that is a RequestException in some releases of the        *)
(* library (caught: the attempt failed) and a plain ValueError in others   *)
(* (not caught: it leaves the call).                                       *)
(***************************************************************************)
MaxTries == 3
Response(status_code, decodes, body) ==
    [raised |-> FALSE, status_code |-> status_code, decodes |-> decodes, body |-> body]
RequestException == [raised |-> TRUE, status_code |-> 0, decodes |-> FALSE, body |-> JNull]
Bodies == {JNull, JInt(7), JStr(<<"o","k">>)}
FailedAnswers == {Response(404, TRUE, JNull), Response(500, TRUE, JNull), RequestException}
UndecodableAnswer == Response(200, FALSE, JNull)

InitFetch ==
    /\ pc = "request"
    /\ max_tries \in 0..MaxTries
    /\ attempts = <<>>
    /\ slept = 0
    /\ fetched = JNull
    /\ StatsIdle /\ DedupeIdle /\ NormIdle /\ ClassIdle /\ RowIdle
    /\ TableIdle /\ TrackIdle /\ PageIdle

\* AttemptFails with the sleep taken between two attempts only.
AttemptFailsSleepBetween(answer) ==
    /\ pc = "request"
    /\ Len(attempts) < max_tries
    /\ attempts' = Append(attempts, answer)
    /\ slept' = IF Len(attempts) + 1 < max_tries THEN slept + 1 ELSE slept
    /\ UNCHANGED <<statsVars, dedupeVars, normVars, classVars, rowVars, pc,
                   tableVars, trackVars, max_tries, fetched, pageVars>>

\* An attempt answered with status 200 and a body that decodes: return r.json()
AttemptSucceeds(body) ==
    /\ pc = "request"
    /\ Len(attempts) < max_tries
    /\ attempts' = Append(attempts, Response(200, TRUE, body))
    /\ fetched' = body
    /\ pc' = "returned"
    /\ UNCHANGED <<statsVars, dedupeVars, normVars, classVars, rowVars,
                   tableVars, trackVars, max_tries, slept, pageVars>>

\* An attempt answered with another status, or a RequestException: a warning
\* and time.sleep
AttemptFails(answer) ==
    /\ pc = "request"
    /\ Len(attempts) < max_tries
    /\ attempts' = Append(attempts, answer)
    /\ slept' = slept + 1
    /\ UNCHANGED <<statsVars, dedupeVars, normVars, classVars, rowVars, pc,
                   tableVars, trackVars, max_tries, fetched, pageVars>>

\* An attempt answered with status 200 and a body that does not decode:
\* r.json() raises, caught as a RequestException or leaving the call
AttemptUndecodable ==
    /\ pc = "request"
    /\ Len(attempts) < max_tries
    /\ attempts' = Append(attempts, UndecodableAnswer)
    /\ \/ slept' = slept + 1 /\ pc' = pc
       \/ slept' = slept /\ pc' = "raised"
    /\ UNCHANGED <<statsVars, dedupeVars, normVars, classVars, rowVars,
                   tableVars, trackVars, max_tries, fetched, pageVars>>

\* The loop is over: logging.error and return None
GiveUp ==
    /\ pc = "request"
    /\ Len(attempts) >= max_tries
    /\ fetched' = JNull
    /\ pc' = "returned"
    /\ UNCHANGED <<statsVars, dedupeVars, normVars, classVars, rowVars,
                   tableVars, trackVars, max_tries, attempts, slept, pageVars>>

NextFetch ==
    \/ \E body \in Bodies : AttemptSucceeds(body)
    \/ \E answer \in FailedAnswers : AttemptFails(answer)
    \/ AttemptUndecodable
    \/ GiveUp

SpecFetch == InitFetch /\ [][NextFetch]_vars

(***************************************************************************)
(* fetch_all_races: the loop over the pages of the race endpoint.  chain   *)
(* is what the server holds: the decoded bodies of the pages, page k       *)
(* linking to page k + 1 by its next field and the last page carrying no   *)
(* next link; url is the page to fetch (None when no link is left), races  *)
(* the list built so far.  safe_get_json is taken by its result: the       *)
(* body of the page, or None when the fetch fails.  A body is a mapping    *)
(* with results, a list, a mapping with a list among its values, a mapping *)
(* without one, or a scalar (on which data.values() raises).               *)
(***************************************************************************)
MaxPages == 3
Page(kind, items) == [kind |-> kind, items |-> items]
RaceLists == {<<>>, <<"a">>, <<"b", "c">>}
Pages ==
    {Page("results", items) : items \in RaceLists}
    \cup {Page("list", <<"d">>), Page("list", <<>>), Page("list_value", <<"e">>),
          Page("no_list_value", <<>>), Page("scalar", <<>>)}
Chains == UNION {[1..n -> Pages] : n \in 1..MaxPages}

InitPages ==
    /\ pc = "pages"
    /\ chain \in Chains
    /\ url = Some(1)
    /\ races = <<>>
    /\ StatsIdle /\ DedupeIdle /\ NormIdle /\ ClassIdle /\ RowIdle
    /\ TableIdle /\ TrackIdle /\ FetchIdle

\* data.get('next') of page k
next_of(k) == IF k < Len(chain) THEN Some(k + 1) ELSE None

\* FetchFails with the races fetched so far given up.
FetchFailsEmpty ==
    /\ pc = "pages"
    /\ races' = <<>>
    /\ pc' = "returned"
    /\ UNCHANGED <<statsVars, dedupeVars, normVars, classVars, rowVars,
                   tableVars, trackVars, fetchVars, chain, url>>

\* One turn of the loop with the page fetched: its races are appended and
\* url becomes its next link, or the loop ends with it.
FetchPage ==
    /\ pc = "pages"
    /\ LET data_ == chain[url.v]
       IN  CASE data_.kind = "results" ->
                    /\ races' = races \o data_.items
                    /\ url' = next_of(url.v)
                    /\ pc' = IF next_of(url.v) = None THEN "returned" ELSE pc
             [] data_.kind \in {"list", "list_value"} ->
                    /\ races' = races \o data_.items
                    /\ url' = None
                    /\ pc' = "returned"
             [] data_.kind = "no_list_value" ->
                    /\ pc' = "returned"
                    /\ UNCHANGED <<races, url>>
             [] OTHER ->
                    /\ pc' = "raised"
                    /\ UNCHANGED <<races, url>>
    /\ UNCHANGED <<statsVars, dedupeVars, normVars, classVars, rowVars,
                   tableVars, trackVars, fetchVars, chain>>

\* One turn of the loop with safe_get_json returning None: break
FetchFails ==
    /\ pc = "pages"
    /\ pc' = "returned"
    /\ UNCHANGED <<statsVars, dedupeVars, normVars, classVars, rowVars,
                   tableVars, trackVars, fetchVars, chain, url, races>>

NextPages ==
    \/ FetchPage
    \/ FetchFails

\* The loop is sequential code: while it has not ended, its next turn is taken.
SpecPagesFair == InitPages /\ [][NextPages]_vars /\ WF_vars(NextPages)

(***************************************************************************)
(* What the claims speak of, stated from the normalized records.           *)
(***************************************************************************)
Seasons == {history.season_ratings[i] : i \in 1..Len(history.season_ratings)}
RecordsOf(season) ==
    LET perfs == extract_xc_performances_from_season(season)
    IN  {perfs[k] : k \in 1..Len(perfs)}
AllRecords == UNION {RecordsOf(season) : season \in Seasons}
TargetRecords ==
    UNION {RecordsOf(season) : season \in {x \in Seasons : year_block(x) = JInt(nat_year)}}

IsChampTimed(p) == ~IsNone(p.time) /\ looks_like_8k(p.section)
IsUndated(p) == IsNone(p.date)
BeforeCutoff(p) == ~IsNone(p.date) /\ (IsNone(nat_date) \/ DateLT(p.date.v, nat_date.v))
OnOrAfterCutoff(p) == ~IsNone(p.date) /\ ~IsNone(nat_date) /\ ~DateLT(p.date.v, nat_date.v)

\* The records that can set the lifetime PR, and the in-season records.
LifetimeContributing == {p \in AllRecords : IsChampTimed(p) /\ (IsUndated(p) \/ BeforeCutoff(p))}
InSeason == {p \in TargetRecords : IsUndated(p) \/ BeforeCutoff(p)}
InSeasonChamp == {p \in InSeason : IsChampTimed(p)}

\* t is the least time of the records of a non-empty set.
IsMinTime(t, records) ==
    /\ \E p \in records : p.time.v = t
    /\ \A p \in records : ~FloatLT(p.time.v, t)

\* The history with the raw entry e added to its season block i.
Blocks == 1..Len(history.season_ratings)
WithEntry(i, e) ==
    AddEntry(history, i, Len(history.season_ratings[i].season_xc_performances.items) + 1, e)

\* min(pr, t) for a PR that may be absent
MinWith(pr, t) == IF IsNone(pr) \/ FloatLT(t, pr.v) THEN Some(t) ELSE pr

\* Championship-distance, time-present entries without a date.
UndatedChampEntries ==
    {RawEntry(JInt(t), JNull, JStr(Chars8K)) : t \in {1500, 1700}}

(***************************************************************************)
(* C1 (as claimed): with a cutoff date, gather_lifetime_pr_before_date     *)
(* leaves out every record without a date: adding a championship-distance, *)
(* time-present record with no date never changes the lifetime PR.         *)
(***************************************************************************)
C1_UndatedNeverChangesPR ==
    (pc = "done" /\ ~IsNone(nat_date)) =>
        \A i \in Blocks, e \in UndatedChampEntries :
            gather_lifetime_pr_before_date(WithEntry(i, e), nat_date) = pr_time

(***************************************************************************)
(* C1 (amended): gather_lifetime_pr_before_date leaves out only the        *)
(* records dated on or after the cutoff; a record without a date is        *)
(* included, cutoff or not: adding a championship-distance record with no  *)
(* date and time t makes the lifetime PR min(previous PR, t).              *)
(***************************************************************************)
C1_UndatedIsIncluded ==
    pc = "done" =>
        \A i \in Blocks, e \in UndatedChampEntries :
            gather_lifetime_pr_before_date(WithEntry(i, e), nat_date)
                = MinWith(pr_time, time_val_of(e.time).v)

\* With a cutoff, the lifetime PR is set by a record without a date alone.
C1_Witness ==
    /\ pc = "done" /\ ~IsNone(nat_date) /\ ~IsNone(pr_time)
    /\ \E p \in LifetimeContributing : IsUndated(p) /\ p.time.v = pr_time.v
    /\ \A p \in LifetimeContributing : p.time.v = pr_time.v => IsUndated(p)
    /\ \E p \in LifetimeContributing : ~IsUndated(p)

(***************************************************************************)
(* C2: gather_lifetime_pr_before_date returns the least time of the        *)
(* championship-distance, time-present records of all seasons that have no *)
(* date or are dated strictly before the cutoff (all of them without a     *)
(* cutoff), and None exactly when there is no such record.                 *)
(***************************************************************************)
C2_LifetimePRIsMin ==
    pc = "done" =>
        IF LifetimeContributing = {} THEN pr_time = None
        ELSE ~IsNone(pr_time) /\ IsMinTime(pr_time.v, LifetimeContributing)

\* A faster championship-distance race on or after the cutoff is left out.
C2_Witness ==
    /\ pc = "done" /\ ~IsNone(pr_time)
    /\ \E p \in AllRecords :
          IsChampTimed(p) /\ OnOrAfterCutoff(p) /\ FloatLT(p.time.v, pr_time.v)

(***************************************************************************)
(* C3: num_races is the number of distinct deduplication keys among the    *)
(* records of the target season that have no date or are dated strictly    *)
(* before the cutoff, whatever their distance and with or without a time.  *)
(***************************************************************************)
C3_RaceCountIsDistinctKeys ==
    pc = "done" => season_stats.num_races = Cardinality({perf_key(p) : p \in InSeason})

\* Two entries of one result over another distance, or without a time, in
\* the season and before the cutoff: one race.
C3_Witness ==
    /\ pc = "done" /\ season_stats.num_races = 1
    /\ CountPerfs(history.season_ratings) = 2
    /\ \A p \in AllRecords : p \in InSeason /\ ~IsChampTimed(p)

(***************************************************************************)
(* C4: sr_time is the least time of the target-season, championship-       *)
(* distance, time-present records that have no date or are dated strictly  *)
(* before the cutoff, and None exactly when there is no such record.       *)
(***************************************************************************)
C4_SeasonRecordIsMin ==
    pc = "done" =>
        IF InSeasonChamp = {} THEN season_stats.sr_time = None
        ELSE /\ ~IsNone(season_stats.sr_time)
             /\ IsMinTime(season_stats.sr_time.v, InSeasonChamp)

\* A faster race of the season on or after the cutoff is not the record.
C4_Witness ==
    /\ pc = "done" /\ ~IsNone(season_stats.sr_time)
    /\ \E p \in TargetRecords :
          IsChampTimed(p) /\ OnOrAfterCutoff(p) /\ FloatLT(p.time.v, season_stats.sr_time.v)

(***************************************************************************)
(* C5: days_since_season_pr is present exactly when the cutoff is present  *)
(* and a dated championship-distance in-season record has the time         *)
(* sr_time; it is then the number of days from the latest date of those    *)
(* records to the cutoff.                                                  *)
(***************************************************************************)
RecordHolders ==
    {p \in InSeasonChamp : ~IsUndated(p) /\ ~IsNone(season_stats.sr_time)
                           /\ p.time.v = season_stats.sr_time.v}

C5_DaysSinceLatestRecord ==
    pc = "done" =>
        IF IsNone(nat_date) \/ RecordHolders = {}
        THEN season_stats.days_since_season_pr = None
        ELSE /\ ~IsNone(season_stats.days_since_season_pr)
             /\ \E p \in RecordHolders :
                   /\ season_stats.days_since_season_pr.v = ToOrdinal(nat_date.v) - ToOrdinal(p.date.v)
                   /\ \A q \in RecordHolders : ~DateLT(p.date.v, q.date.v)

\* The season record was run twice, on two dates: the later one counts.
C5_Witness ==
    /\ pc = "done" /\ ~IsNone(season_stats.days_since_season_pr)
    /\ \E p, q \in RecordHolders : DateLT(p.date.v, q.date.v)

(***************************************************************************)
(* C6: consistency is present exactly when at least two championship-      *)
(* distance, time-present records remain in the target season after the    *)
(* cutoff filter and the deduplication.                                    *)
(***************************************************************************)
C6_ConsistencyNeedsTwo ==
    pc = "done" =>
        (~IsNone(season_stats.consistency)
            <=> Cardinality({perf_key(p) : p \in InSeasonChamp}) >= 2)

\* Two entries of one result leave one time: a season record, no consistency.
C6_Witness ==
    /\ pc = "done" /\ IsNone(season_stats.consistency) /\ ~IsNone(season_stats.sr_time)
    /\ CountPerfs(history.season_ratings) = 2
    /\ \A p \in AllRecords : p \in InSeasonChamp

(***************************************************************************)
(* C7: a present consistency is the population standard deviation of the   *)
(* N deduplicated in-season championship-distance times:                   *)
(* N^2 * consistency^2 = N * sum(t^2) - (sum t)^2; it is 5 for the times   *)
(* 1500 and 1510 and 25 for the times 1600 and 1550.  (consistency^2 is    *)
(* sq / den, and a sum of floats is kept by its coefficients in            *)
(* 1 / FracUnit.)                                                          *)
(***************************************************************************)
SeasonChampTimes ==
    TimesOf(SelectSeq(dedupe_performances(
                          season_perfs_of(SeasonRatings(history), nat_year, nat_date)),
                      IsChampTimed))

RECURSIVE SumOfSquares(_)
SumOfSquares(ts) ==
    IF ts = <<>> THEN <<0, 0, 0>>
    ELSE LET r == SumOfSquares(Tail(ts))
         IN  <<ts[1].s * ts[1].s + r[1], 2 * ts[1].s * ts[1].f + r[2], ts[1].f * ts[1].f + r[3]>>
SquareOfSum(ts) == <<SumS(ts) * SumS(ts), 2 * SumS(ts) * SumF(ts), SumF(ts) * SumF(ts)>>
Times3(k, c) == <<k * c[1], k * c[2], k * c[3]>>
Minus3(c, d) == <<c[1] - d[1], c[2] - d[2], c[3] - d[3]>>
TimesAre(ts, a, b) == ts \in {<<Secs(a), Secs(b)>>, <<Secs(b), Secs(a)>>}

C7_PopulationStdDev ==
    (pc = "done" /\ ~IsNone(season_stats.consistency)) =>
        LET ts == SeasonChampTimes
            n == Len(ts)
            c == season_stats.consistency.v
        IN  /\ Times3(n * n, c.sq)
                 = Times3(c.den, Minus3(Times3(n, SumOfSquares(ts)), SquareOfSum(ts)))
            /\ c.den > 0
            /\ TimesAre(ts, 1500, 1510) => c.sq = <<5 * 5 * c.den, 0, 0>>
            /\ TimesAre(ts, 1600, 1550) => c.sq = <<25 * 25 * c.den, 0, 0>>

\* The season's times are 1500 and 1510.
C7_Witness ==
    /\ pc = "done" /\ ~IsNone(season_stats.consistency)
    /\ TimesAre(SeasonChampTimes, 1500, 1510)

(***************************************************************************)
(* C8: a race held on or after the cutoff never affects the statistics:    *)
(* with a cutoff, adding a record dated on or after it, to any season,     *)
(* leaves num_races, sr_time, consistency, days_since_season_pr and the    *)
(* lifetime PR as they were.  With the races of 2024-09-01 (1600) and      *)
(* 2024-10-15 (1550), the nationals race of 2024-11-20 (1500) and that     *)
(* cutoff: sr_time 1550, num_races 2, 36 days, consistency 25.             *)
(***************************************************************************)
\* A championship-distance result faster than every other, run on the day
\* of the cutoff or after it.
LateEntries ==
    {RawEntry(JInt(1500), JStr(d), JStr(Chars8K)) : d \in {isoformat(nat_date.v), Dec01}}

ScenarioHistory ==
    [kind |-> "dict",
     season_ratings |->
        <<[isdict |-> TRUE, season |-> Season2024,
           season_xc_performances |->
              [islist |-> TRUE,
               items |-> <<RawEntry(JInt(1600), JStr(Sep01), JStr(Chars8K)),
                           RawEntry(JInt(1550), JStr(Oct15), JStr(Chars8K))>>]]>>]
NationalsRace == RawEntry(JInt(1500), JStr(Nov20), JStr(Chars8K))

C8_LateRaceChangesNothing ==
    (pc = "done" /\ ~IsNone(nat_date)) =>
        /\ \A i \in Blocks, e \in LateEntries :
              LET h == WithEntry(i, e)
              IN  /\ gather_season_stats(h, nat_year, nat_date) = season_stats
                  /\ gather_lifetime_pr_before_date(h, nat_date) = pr_time
        /\ (history = ScenarioHistory /\ nat_date = Some(IsoDateOf(Nov20))) =>
              LET st == gather_season_stats(WithEntry(1, NationalsRace),
                                            nat_year, nat_date)
              IN  /\ st.sr_time = Some(Secs(1550))
                  /\ st.num_races = 2
                  /\ st.days_since_season_pr = Some(36)
                  /\ st.consistency = Some([sq |-> <<25 * 25 * 8, 0, 0>>, den |-> 8])

\* The two races before the nationals of 2024-11-20, and their statistics.
C8_Witness ==
    /\ pc = "done" /\ history = ScenarioHistory /\ nat_date = Some(IsoDateOf(Nov20))
    /\ season_stats.sr_time = Some(Secs(1550))
    /\ season_stats.days_since_season_pr = Some(36)

(***************************************************************************)
(* C9: dedupe_performances is idempotent: applied to its own output it     *)
(* returns that output unchanged.                                          *)
(***************************************************************************)
C9_DedupeIdempotent == pc = "twice" => twice = unique

\* A list of three records of one result, deduplicated twice.
C9_Witness ==
    /\ pc = "twice" /\ Len(perf_list) = 3 /\ Len(unique) = 1 /\ twice = unique

(***************************************************************************)
(* C10: the output of dedupe_performances is the subsequence of the input  *)
(* made of the records that no earlier record shares its key with: no two  *)
(* output records share a key and every input key appears once.  For A, B  *)
(* identical and C with another time the output is [A, C].                 *)
(***************************************************************************)
RECURSIVE FirstOccurrences(_, _)
FirstOccurrences(list, i) ==
    IF i > Len(list) THEN <<>>
    ELSE (IF \A j \in 1..(i - 1) : perf_key(list[j]) # perf_key(list[i])
          THEN <<list[i]>> ELSE <<>>) \o FirstOccurrences(list, i + 1)

RecordA == Perf(Some(Secs(1500)), Some(IsoDateOf(Jan01)), Chars8k)
RecordC == Perf(Some(Secs(1501)), Some(IsoDateOf(Jan01)), Chars8k)

C10_DedupeFirstOccurrenceWins ==
    pc \in {"deduped", "twice"} =>
        /\ unique = FirstOccurrences(perf_list, 1)
        /\ \A i, j \in 1..Len(unique) : i # j => perf_key(unique[i]) # perf_key(unique[j])
        /\ {perf_key(unique[i]) : i \in 1..Len(unique)}
              = {perf_key(perf_list[i]) : i \in 1..Len(perf_list)}
        /\ perf_list = <<RecordA, RecordA, RecordC>> => unique = <<RecordA, RecordC>>

\* Two records of one key that differ (in the case of the section), then a
\* third of another key: the first and the third are kept.
C10_Witness ==
    /\ pc = "deduped" /\ Len(perf_list) = 3
    /\ perf_key(perf_list[1]) = perf_key(perf_list[2]) /\ perf_list[1] # perf_list[2]
    /\ unique = <<perf_list[1], perf_list[3]>>

(***************************************************************************)
(* C11: dedupe_performances treats two records as the same result exactly  *)
(* when they agree on the date (or both have none), on the section and on  *)
(* the time rounded to 6 decimals (or both have none); the meet name and   *)
(* the place play no part.                                                 *)
(***************************************************************************)
\* The section of a record as text, an absent one being empty.
SectionText(p) == IF Truthy(p.section) THEN Str(p.section) ELSE <<>>

\* s lower-cased, every run of whitespace made one space.
RECURSIVE CollapseRuns(_)
CollapseRuns(s) ==
    IF s = <<>> THEN <<>>
    ELSE LET rest == CollapseRuns(Tail(s))
         IN  IF Head(s) \in Whitespace
             THEN (IF rest # <<>> /\ rest[1] = " " THEN rest ELSE <<" ">> \o rest)
             ELSE <<LowerChar(Head(s))>> \o rest

\* s without a space at its start and at its end.
TrimSpace(s) ==
    LET a == IF s # <<>> /\ s[1] = " " THEN Tail(s) ELSE s
    IN  IF a # <<>> /\ a[Len(a)] = " " THEN SubSeq(a, 1, Len(a) - 1) ELSE a

SameDate(p, q) == p.date = q.date
SameTime(p, q) ==
    \/ IsNone(p.time) /\ IsNone(q.time)
    \/ ~IsNone(p.time) /\ ~IsNone(q.time) /\ Round6(p.time.v) = Round6(q.time.v)
SameSectionCollapsed(p, q) == CollapseRuns(SectionText(p)) = CollapseRuns(SectionText(q))
SameSectionTrimmed(p, q) ==
    TrimSpace(CollapseRuns(SectionText(p))) = TrimSpace(CollapseRuns(SectionText(q)))

SameResultCollapsed(p, q) == SameDate(p, q) /\ SameSectionCollapsed(p, q) /\ SameTime(p, q)
SameResultTrimmed(p, q) == SameDate(p, q) /\ SameSectionTrimmed(p, q) /\ SameTime(p, q)

\* The records of the list that no earlier record is the same result as.
FirstOfEach(Same(_, _), list) ==
    LET first(j) == \A i \in 1..(j - 1) : ~Same(list[i], list[j])
    IN  SelectSeq([j \in 1..Len(list) |-> <<j, list[j]>>],
                  LAMBDA x : first(x[1]))

RecordsAt(pairs) == [k \in 1..Len(pairs) |-> pairs[k][2]]

\* C11 (as claimed): the section is compared lower-cased with its runs of
\* whitespace collapsed, and records differing in a key part are both kept.
C11_SameKeyCollapsed ==
    pc = "deduped" => unique = RecordsAt(FirstOfEach(SameResultCollapsed, perf_list))

\* C11 (amended): the section is compared lower-cased with its runs of
\* whitespace collapsed and the whitespace at its ends removed, so that a
\* section of whitespace only is the same as an absent one; records that
\* agree on date, section and rounded time are collapsed to the first, the
\* others are all kept.
C11_SameKeyTrimmed ==
    pc = "deduped" => unique = RecordsAt(FirstOfEach(SameResultTrimmed, perf_list))

C11_Witness ==
    /\ pc = "deduped"
    /\ perf_list = <<KeyBase, KeyPadded, KeyOtherMeet>>
    /\ unique = <<KeyBase>>

(***************************************************************************)
(* C12: the All-American flag of a row is 1 exactly when the nationals     *)
(* placement is a present integer of at most 40; an absent placement and a *)
(* placement that is no integer ("DNF") give 0: 40 gives 1 and 41 gives 0. *)
(***************************************************************************)
C12_AllAmericanTopForty ==
    pc = "row" =>
        /\ all_american \in {0, 1}
        /\ all_american = 1 <=> (nat_place.t = "int" /\ nat_place.n <= 40)
        /\ nat_place = PlaceInt(40) => all_american = 1
        /\ nat_place = PlaceInt(41) => all_american = 0
        /\ nat_place \in {JNull, JStr(CharsDNF), PlaceFloat(40, 0)} => all_american = 0

C12_Witness == pc = "row" /\ nat_place = PlaceInt(40) /\ all_american = 1

(***************************************************************************)
(* C13: looks_like_8k(section) is true exactly when the label, lower-cased, *)
(* holds "8k" or "8000" somewhere; no label and an empty label give false, *)
(* and "18k" is classified as championship distance.                       *)
(***************************************************************************)
\* An 8 followed by k or K, or by three zeros, somewhere in s.
HoldsChampText(s) ==
    \E i \in 1..Len(s) :
        /\ s[i] = "8"
        /\ \/ i + 1 <= Len(s) /\ s[i + 1] \in {"k", "K"}
           \/ i + 3 <= Len(s) /\ s[i + 1] = "0" /\ s[i + 2] = "0" /\ s[i + 3] = "0"

C13_ChampDistanceBySubstring ==
    pc = "classified" =>
        /\ is_8k = (label # JNull /\ label # JStr(<<>>) /\ label # JInt(0)
                    /\ HoldsChampText(Str(label)))
        /\ label \in {JNull, JStr(<<>>)} => ~is_8k
        /\ label = JStr(<<"1","8","k">>) => is_8k

C13_Witness == pc = "classified" /\ label = JStr(<<"1","8","K">>) /\ is_8k

(***************************************************************************)
(* What the claims on the normalizer speak of.                             *)
(***************************************************************************)
RawItems == season_block.season_xc_performances.items
WellFormedBlock ==
    season_block.isdict /\ season_block.season_xc_performances.islist /\ RawItems # <<>>
AllMappings == \A i \in 1..Len(RawItems) : RawItems[i].isdict

\* The text is a numeral: an optional sign, then digits with at most one
\* point among them, blanks around it allowed.
NumeralText(s) ==
    LET t == Strip(s)
        body == IF t # <<>> /\ t[1] \in {"+", "-"} THEN Tail(t) ELSE t
    IN  /\ \A i \in 1..Len(body) : body[i] \in DigitSet \cup {"."}
        /\ Cardinality({i \in 1..Len(body) : body[i] = "."}) <= 1
        /\ \E i \in 1..Len(body) : body[i] \in DigitSet
LooksNumeric(time) == time.t = "num" \/ (time.t = "str" /\ NumeralText(time.s))
ZeroTimes == {JInt(0), JStr(<<"0">>)}

C17_TimeNeverNegative ==
    pc = "extracted" =>
        \A i \in 1..Len(out) : out[i].time = None \/ out[i].time.v.s >= 0

(***************************************************************************)
(* C18: extract_xc_performances_from_season never fails and never filters: *)
(* it returns the empty list when the season block is no mapping or its    *)
(* season_xc_performances is absent, empty or no list, and else one record *)
(* for each raw entry, in the order of the raw entries.                    *)
(***************************************************************************)
C18_NeverFailsNeverFilters ==
    /\ pc # "raised"
    /\ pc = "extracted" =>
          IF WellFormedBlock
          THEN /\ Len(out) = Len(RawItems)
               /\ \A i \in 1..Len(out) : out[i].place = RawItems[i].place
          ELSE out = <<>>

(***************************************************************************)
(* C19: for every raw entry the normalizer takes the section from the race *)
(* when it has one (non-empty), else from the entry, else ""; the meet     *)
(* name from the race's meet_name, meet, name, in that order, else ""; the *)
(* date from the race's date when non-empty and else from the entry's own; *)
(* the place as it is; a race that is no mapping carries no fields.        *)
(***************************************************************************)
RECURSIVE FirstNonEmpty(_)
FirstNonEmpty(values) ==
    IF values = <<>> THEN JStr(<<>>)
    ELSE IF Head(values) \notin {JNull, JStr(<<>>), JInt(0)} THEN Head(values)
    ELSE FirstNonEmpty(Tail(values))

RaceField(p, key) == IF p.race.isdict THEN p.race[key] ELSE JNull

\* The calendar date a date text of the entries stands for.
DateRead(text) ==
    CASE text = JStr(Sep01) -> Some([y |-> 2024, m |-> 9, d |-> 1])
      [] text = JStr(Oct15) -> Some([y |-> 2024, m |-> 10, d |-> 15])
      [] OTHER -> None

C19_FieldsByPrecedence ==
    pc = "extracted" =>
        \A i \in 1..Len(out) :
            LET p == RawItems[i]
                r == out[i]
            IN  /\ r.section = FirstNonEmpty(<<RaceField(p, "section"), p.section>>)
                /\ r.meet_name = FirstNonEmpty(<<RaceField(p, "meet_name"),
                                                 RaceField(p, "meet"), RaceField(p, "name")>>)
                /\ r.date = DateRead(IF RaceField(p, "date") \notin {JNull, JStr(<<>>)}
                                     THEN RaceField(p, "date") ELSE p.date)
                /\ r.place = p.place

C19_Witness ==
    /\ pc = "extracted"
    /\ Len(out) = 2
    /\ RawItems[1].race.isdict /\ RawItems[1].race.section = JStr(<<>>)
    /\ out[1].section = JStr(Chars5k)
    /\ ~RawItems[2].race.isdict
    /\ out[2].meet_name = JStr(<<>>) /\ out[2].date = DateRead(JStr(Oct15))

(***************************************************************************)
(* C14: no performance that is_track_meet classifies as track (by its meet *)
(* name and section) contributes to the race count, the season record, the *)
(* consistency, the days since the season record or the lifetime PR: the   *)
(* statistics are those of the history without its track entries.          *)
(***************************************************************************)
IsTrackEntry(e) ==
    is_track_meet(normalize_entry(e).meet_name, normalize_entry(e).section)
NotTrackEntry(e) == ~IsTrackEntry(e)
WithoutTrack(h) ==
    [h EXCEPT !.season_ratings =
        [i \in 1..Len(h.season_ratings) |->
            [h.season_ratings[i] EXCEPT
                !.season_xc_performances.items = SelectSeq(@, NotTrackEntry)]]]

C14_TrackEntriesExcluded ==
    pc = "done" =>
        /\ pr_time = gather_lifetime_pr_before_date(WithoutTrack(history), nat_date)
        /\ season_stats = gather_season_stats(WithoutTrack(history), nat_year, nat_date)

(***************************************************************************)
(* C15: no exception leaves gather_lifetime_pr_before_date or              *)
(* gather_season_stats on absent or degenerate input (a history that is no *)
(* mapping, no or an empty season list, a season that is no mapping, a     *)
(* season without a year, records without time, date or section): the      *)
(* result has absent statistics, and a race count of 0 for an empty        *)
(* season.                                                                 *)
(***************************************************************************)
C15_NoExceptionOnDegenerateInput ==
    /\ pc # "raised"
    /\ pc = "done" =>
          /\ SeasonRatings(history) = <<>> => pr_time = None /\ season_stats = NoSeasonStats
          /\ CountPerfs(history.season_ratings) = 0 =>
                pr_time = None /\ season_stats = NoSeasonStats

(***************************************************************************)
(* C20: computing statistics never changes the athlete's history: when     *)
(* gather_lifetime_pr_before_date, gather_season_stats and                 *)
(* dedupe_performances have returned, the history (its season blocks and   *)
(* raw entries) and the list passed to dedupe_performances are what they   *)
(* were before the call.                                                   *)
(***************************************************************************)
C20_StatisticsOnlyRead ==
    [][/\ (pc = "load" /\ pc' # "load") => history' = history
       /\ (pc = "list" /\ pc' = "deduped") => perf_list' = perf_list
       /\ (pc = "deduped" /\ pc' = "twice") => (perf_list' = perf_list /\ unique' = unique)]_vars

C20_Witness ==
    /\ pc = "deduped"
    /\ Len(perf_list) = 3
    /\ Len(unique) = 1

(***************************************************************************)
(* C24: is_track_meet answers true exactly when one of the configured      *)
(* track keywords occurs in the meet name or in the section, letters       *)
(* compared without regard to case and an absent name or section read as   *)
(* the empty text; the answer is the same for the name and the section in  *)
(* upper case and in lower case.                                           *)
(***************************************************************************)
UpperMap == [c \in {LowerChars[i] : i \in 1..26} |->
                UpperChars[CHOOSE i \in 1..26 : LowerChars[i] = c]]
UpperChar(c) == IF c \in DOMAIN UpperMap THEN UpperMap[c] ELSE c
Upper(s) == [i \in 1..Len(s) |-> UpperChar(s[i])]
SameLetter(a, b) == a = b \/ UpperChar(a) = b \/ a = UpperChar(b)
OccursIn(text, kw) ==
    \E i \in 0..(Len(text) - Len(kw)) :
        \A j \in 1..Len(kw) : SameLetter(text[i + j], kw[j])
TextOf(x) == IF x.t = "str" THEN x.s ELSE <<>>
HoldsTrackKeyword(meet_name, section) ==
    \E k \in 1..Len(TRACK_KEYWORDS) :
        \/ OccursIn(TextOf(meet_name), TRACK_KEYWORDS[k])
        \/ OccursIn(TextOf(section), TRACK_KEYWORDS[k])
InCase(x, F(_)) == IF x.t = "str" THEN JStr(F(x.s)) ELSE x
HasTargetTag(season) ==
    /\ season.season.kind \in {"dict", "int"}
    /\ season.season.year = JInt(nat_year)
TargetBlocksOnly == [history EXCEPT !.season_ratings = SelectSeq(@, HasTargetTag)]
DatedInYear(p, y) == ~IsNone(p.date) /\ p.date.v.y = y
C25_TargetYearBlocksOnly ==
    pc = "done" =>
        /\ season_stats = gather_season_stats(TargetBlocksOnly, nat_year, nat_date)
        /\ season_stats.num_races = Cardinality({perf_key(p) : p \in InSeason})
        /\ \A p \in TargetRecords :
              (IsUndated(p) \/ BeforeCutoff(p)) => season_stats.num_races >= 1
\* The one race of the target-year block is dated in the year before and sets
\* the season record; a faster race dated in the target year stands in the
\* block of the year before and sets the lifetime PR only.
C25_Witness ==
    /\ pc = "done"
    /\ season_stats.num_races = 1
    /\ season_stats.sr_time = Some(Secs(1600))
    /\ pr_time = Some(Secs(1550))
    /\ \E p \in TargetRecords : DatedInYear(p, nat_year - 1)
    /\ \E q \in AllRecords \ TargetRecords : DatedInYear(q, nat_year)

(***************************************************************************)
(* C28: whenever the season record is present, the lifetime PR computed    *)
(* from the same history and cutoff is present and is not slower than the  *)
(* season record.                                                          *)
(***************************************************************************)
C28_LifetimePRBoundsSeasonRecord ==
    (pc = "done" /\ ~IsNone(season_stats.sr_time)) =>
        /\ ~IsNone(pr_time)
        /\ ~FloatLT(season_stats.sr_time.v, pr_time.v)
\* The lifetime PR, set in another season, is faster than the season record.
C28_Witness ==
    /\ pc = "done"
    /\ ~IsNone(season_stats.sr_time)
    /\ ~IsNone(pr_time)
    /\ FloatLT(pr_time.v, season_stats.sr_time.v)
    /\ Len(history.season_ratings) = 2

(***************************************************************************)
(* C29: a present days_since_season_pr is an integer of one day at least.  *)
(***************************************************************************)
C29_DaysSinceAtLeastOne ==
    (pc = "done" /\ ~IsNone(season_stats.days_since_season_pr)) =>
        /\ season_stats.days_since_season_pr.v \in Nat
        /\ season_stats.days_since_season_pr.v >= 1
\* The season record was run on the eve of the nationals race.
C29_Witness ==
    /\ pc = "done"
    /\ season_stats.days_since_season_pr = Some(1)

(***************************************************************************)
(* C30: the four season statistics are coherent: a present consistency     *)
(* comes with a present season record and two races at least, a present    *)
(* days_since_season_pr with a present season record and a present cutoff, *)
(* a present season record with one race at least; the consistency is the  *)
(* square root of a non-negative quantity; and a history without a block   *)
(* of the target year gives no race and no other statistic.                *)
(***************************************************************************)
C30_SeasonStatsCoherent ==
    pc = "done" =>
        /\ ~IsNone(season_stats.consistency) =>
              /\ ~IsNone(season_stats.sr_time)
              /\ season_stats.num_races >= 2
              /\ LET c == season_stats.consistency.v
                 IN  /\ c.den > 0
                     /\ c.sq[1] >= 0 /\ c.sq[3] >= 0
                     /\ c.sq[2] * c.sq[2] <= 4 * c.sq[1] * c.sq[3]
        /\ ~IsNone(season_stats.days_since_season_pr) =>
              ~IsNone(season_stats.sr_time) /\ ~IsNone(nat_date)
        /\ ~IsNone(season_stats.sr_time) => season_stats.num_races >= 1
        /\ season_stats.num_races \in Nat
        /\ (\A s \in Seasons : ~HasTargetTag(s)) => season_stats = NoSeasonStats
\* Two results of the season equal on date, section and time count as one
\* race: a season record and no consistency.
C30_Witness ==
    /\ pc = "done"
    /\ season_stats.num_races = 1
    /\ ~IsNone(season_stats.sr_time)
    /\ IsNone(season_stats.consistency)
    /\ \E i \in 1..Len(history.season_ratings) :
          /\ HasTargetTag(history.season_ratings[i])
          /\ LET items == history.season_ratings[i].season_xc_performances.items
             IN  Len(items) = 2 /\ items[1] = items[2]

(***************************************************************************)
(* What the rows claims speak of: the (year, athlete) key of a row, the    *)
(* placement, the history and the cutoff the input gives it.               *)
(***************************************************************************)
RowPlace(r) == Get(data.nat_place_map, <<r.Year, r.Athlete_ID>>, JNull)
RowHistory(r) == Get(data.athlete_histories, r.Athlete_ID, None)
RowCutoff(r) == Get(nat_date_map, r.Year, None)
RowIndex == 1..Len(rows)

(***************************************************************************)
(* C21: the All-American flag of a row depends on the placement alone: two *)
(* rows of athletes with the same placement carry the same flag, whatever  *)
(* their histories and cutoff dates.                                       *)
(***************************************************************************)
C21_FlagByPlacementAlone ==
    \A i, j \in RowIndex :
        RowPlace(rows[i]) = RowPlace(rows[j]) => rows[i].All_American = rows[j].All_American
\* Two rows with the same All-American placement, one with a lifetime PR and
\* the other, of another history and another cutoff, without.
C21_Witness ==
    \E i, j \in RowIndex :
        /\ RowPlace(rows[i]) = PlaceInt(12) /\ RowPlace(rows[j]) = PlaceInt(12)
        /\ RowHistory(rows[i]) # RowHistory(rows[j])
        /\ RowCutoff(rows[i]) # RowCutoff(rows[j])
        /\ rows[i].Personal_Record = MISSING_NUMERIC
        /\ rows[j].Personal_Record # MISSING_NUMERIC
        /\ rows[i].All_American = 1

(***************************************************************************)
(* C22: in every emitted row, Personal Record, Season Record, Consistency  *)
(* and Days since Season PR hold the missing-value sentinel exactly when   *)
(* the statistic is absent and the computed value otherwise; Number of     *)
(* Races Run is a non-negative integer and All-American is 0 or 1.         *)
(***************************************************************************)
SentinelOrValue(cell, stat) ==
    /\ cell = MISSING_NUMERIC <=> IsNone(stat)
    /\ ~IsNone(stat) => cell = stat
C22_SentinelIffAbsent ==
    \A i \in RowIndex :
        LET r == rows[i]
            pr == gather_lifetime_pr_before_date(RowHistory(r), RowCutoff(r))
            stats == gather_season_stats(RowHistory(r), r.Year, RowCutoff(r))
        IN  /\ SentinelOrValue(r.Personal_Record, pr)
            /\ SentinelOrValue(r.Season_Record, stats.sr_time)
            /\ SentinelOrValue(r.Consistency, stats.consistency)
            /\ SentinelOrValue(r.Days_since_Season_PR, stats.days_since_season_pr)
            /\ r.Number_of_Races_Run \in Nat
            /\ r.Number_of_Races_Run = stats.num_races
            /\ r.All_American \in {0, 1}
\* A row with every statistic present, and a row with none.
C22_Witness ==
    /\ \E i \in RowIndex :
          /\ rows[i].Personal_Record = Some(Secs(1550))
          /\ rows[i].Season_Record = Some(Secs(1550))
          /\ rows[i].Consistency # MISSING_NUMERIC
          /\ rows[i].Days_since_Season_PR = Some(36)
          /\ rows[i].Number_of_Races_Run = 2
    /\ \E i \in RowIndex :
          /\ rows[i].Personal_Record = MISSING_NUMERIC
          /\ rows[i].Season_Record = MISSING_NUMERIC
          /\ rows[i].Consistency = MISSING_NUMERIC
          /\ rows[i].Days_since_Season_PR = MISSING_NUMERIC
          /\ rows[i].Number_of_Races_Run = 0

(***************************************************************************)
(* C23: the returned rows are, once each, the (year, athlete) pairs of the *)
(* configured years whose athlete ran that year's nationals race and has a *)
(* non-empty history; an athlete without a history has no row; an athlete  *)
(* with a history and no placement has a row with All-American 0; the rows *)
(* stand in the order of the configured years and, within a year, in       *)
(* ascending athlete id.                                                   *)
(***************************************************************************)
YearPosition(y) == CHOOSE k \in 1..Len(YEARS) : YEARS[k] = y
Qualified ==
    {ya \in {YEARS[k] : k \in 1..Len(YEARS)} \X Athletes :
        ya[2] \in Get(data.athletes_by_year, ya[1], {})}
HasHistory(a) ==
    /\ a \in DOMAIN data.athlete_histories
    /\ data.athlete_histories[a].size > 0
C23_OneRowPerAthleteWithHistory ==
    pc = "returned" =>
        /\ {<<rows[i].Year, rows[i].Athlete_ID>> : i \in RowIndex}
             = {ya \in Qualified : HasHistory(ya[2])}
        /\ Len(rows) = Cardinality({ya \in Qualified : HasHistory(ya[2])})
        /\ \A i \in RowIndex :
              <<rows[i].Year, rows[i].Athlete_ID>> \notin DOMAIN data.nat_place_map
                  => rows[i].All_American = 0
        /\ \A i, j \in RowIndex :
              i < j => \/ YearPosition(rows[i].Year) < YearPosition(rows[j].Year)
                       \/ /\ rows[i].Year = rows[j].Year
                          /\ rows[i].Athlete_ID < rows[j].Athlete_ID
\* Both athletes ran both races: one has no history and no row, the other
\* has a history, no placement, and a row for each year.
C23_Witness ==
    /\ pc = "returned"
    /\ Cardinality(Qualified) = 4
    /\ Len(rows) = 2
    /\ \E a \in Athletes : ~HasHistory(a)
    /\ data.nat_place_map = <<>>
    /\ \A i \in RowIndex : rows[i].All_American = 0

(***************************************************************************)
(* C26: safe_get_json issues max_tries requests at most; the first answer  *)
(* with status 200 ends the call: its decoded body is returned and no      *)
(* request follows it; after max_tries answers that are each another       *)
(* status or a request exception the call returns None and has not         *)
(* raised; time.sleep has been called once for every failed attempt.       *)
(* As stated: every answer with status 200 ends the call.  As the code     *)
(* has it: an answer with status 200 ends the call with its decoded body   *)
(* when the body decodes; when it does not, the attempt either counts as   *)
(* failed (a sleep, then the next attempt) or its error leaves the call.   *)
(***************************************************************************)
AttemptIndex == 1..Len(attempts)
IsFailure(answer) == answer.raised \/ answer.status_code # 200
NoneDecodes == \A i \in AttemptIndex : ~attempts[i].decodes \/ IsFailure(attempts[i])
FailedBefore(n) ==
    Cardinality({i \in AttemptIndex :
                    i <= n /\ (IsFailure(attempts[i]) \/ ~attempts[i].decodes)})
C26_RetryBounded ==
    /\ Len(attempts) <= max_tries
    /\ pc = "request" => NoneDecodes
    /\ (pc = "returned" /\ NoneDecodes) => Len(attempts) = max_tries /\ fetched = JNull
    /\ (\A i \in AttemptIndex : IsFailure(attempts[i])) => pc # "raised"
C26_EveryOkAnswerReturned ==
    /\ C26_RetryBounded
    /\ \A i \in AttemptIndex :
          (~attempts[i].raised /\ attempts[i].status_code = 200)
              => /\ i = Len(attempts)
                 /\ pc = "returned"
                 /\ fetched = attempts[i].body
    /\ pc # "raised" => slept = Cardinality({i \in AttemptIndex : IsFailure(attempts[i])})
C26_DecodedOkAnswerReturned ==
    /\ C26_RetryBounded
    /\ \A i \in AttemptIndex :
          (~attempts[i].raised /\ attempts[i].status_code = 200) =>
              IF attempts[i].decodes
              THEN i = Len(attempts) /\ pc = "returned" /\ fetched = attempts[i].body
              ELSE i < Len(attempts) \/ pc \in {"request", "raised"} \/ fetched = JNull
    /\ pc = "raised" =>
          /\ attempts[Len(attempts)] = UndecodableAnswer
          /\ slept = FailedBefore(Len(attempts) - 1)
    /\ pc # "raised" => slept = FailedBefore(Len(attempts))
\* Two failed attempts, two sleeps, then an answer with status 200 whose body
\* is returned.
C26_Witness ==
    /\ pc = "returned"
    /\ max_tries = 3
    /\ Len(attempts) = 3
    /\ IsFailure(attempts[1]) /\ attempts[2] = RequestException
    /\ attempts[3] = Response(200, TRUE, JInt(7))
    /\ fetched = JInt(7)
    /\ slept = 2

(***************************************************************************)
(* C27: fetch_all_races follows the next links: the races returned are the *)
(* results of the pages fetched, page after page in the order of the       *)
(* chain; with no failure it ends at the page without a next link; when    *)
(* the fetch of a page fails it returns, without raising, the races of the *)
(* pages before that one; and on a finite chain the loop ends.             *)
(***************************************************************************)
RECURSIVE ResultsUpTo(_)
ResultsUpTo(n) == IF n = 0 THEN <<>> ELSE ResultsUpTo(n - 1) \o chain[n].items
AllResultPages(n) == \A k \in 1..n : chain[k].kind = "results"
C27_PagesState ==
    /\ pc = "pages" =>
          /\ ~IsNone(url) /\ url.v \in 1..Len(chain)
          /\ AllResultPages(url.v - 1)
          /\ races = ResultsUpTo(url.v - 1)
    /\ (pc = "returned" /\ IsNone(url) /\ AllResultPages(Len(chain))) =>
          races = ResultsUpTo(Len(chain))
    /\ (pc = "returned" /\ ~IsNone(url) /\ chain[url.v].kind = "results") =>
          races = ResultsUpTo(url.v - 1)
    /\ pc = "raised" => chain[url.v].kind = "scalar"
C27_FollowsNextLinks == []C27_PagesState /\ <>(pc # "pages")
\* Two pages were fetched and the fetch of the third failed: the races of the
\* two are returned.
C27_Witness ==
    /\ pc = "returned"
    /\ url = Some(3)
    /\ AllResultPages(3)
    /\ races = <<"a", "b", "c">>

====
